---- MODULE Spec2Model ----
(***************************************************************************)
(* Credential and authorization subsystem of gacha-daily-tracker:          *)
(* the users table, the bearer tokens, the auth middleware and the account *)
(* operations.  Every request is a process slot; one action is one         *)
(* stretch of a handler between two awaits, so that concurrent requests    *)
(* interleave exactly at their store round-trips and bcrypt calls.         *)
(***************************************************************************)
EXTENDS Integers, Sequences, FiniteSets, TLC

VARIABLES
    env,      \* process.env: JWT_SECRET, PASSWORD_PEPPER, REGISTRATION_TOKEN
    users,    \* the rows of table users
    nextId,   \* the SERIAL sequence behind users.id
    tokens,   \* tokens[id]: the token that the client of user id holds (NoToken: none)
    reqs,     \* reqs[p]: the request that slot p is serving
    lastSet,  \* history: lastSet[id] is the password text last stored for user id
    now,      \* Date.now(), in days
    dependents,  \* the rows of user_games, daily_completions and reminder_settings
    pool      \* pool[p]: the clients that the request of slot p has checked out of the Pool

vars == <<env, users, nextId, tokens, reqs, lastSet, now, dependents, pool>>

----------------------------------------------------------------------------
(* Bounds of the model *)

NumProcs == 2     \* requests in flight at the same time
MaxUsers == 3     \* rows that the users table ever gets

MaxDays == 40     \* the clock stops here
TickDays == 10    \* the clock advances in steps of this many days

Procs == 1..NumProcs

----------------------------------------------------------------------------
(* Values *)

ROLES == [USER |-> 1, PREMIUM |-> 2, ADMIN |-> 3, OWNER |-> 4]

saltRounds == 16

\* A password is the text plus what the validation inspects of it.
Password(text, len, classes) == [text |-> text, len |-> len, classes |-> classes]
AllClasses == {"lower", "upper", "digit", "special"}
NoPassword == Password("", 0, {})
PwA == Password("Aa1!aaaaaaaaaaa", 15, AllClasses)
PwB == Password("Bb2?bbbbbbbbbbb", 15, AllClasses)

\* An email is a sequence of characters.
NoEmail == << >>
EmailA == <<"a", "@", "x">>
EmailUpperA == <<"A", "@", "x">>
EmailB == <<"b", "@", "x">>
EmailC == <<"c", "@", "x", ".", "y">>
EmailD == <<"d", "@", "x", ".", "y">>

\* a timezone string as the service inspects it: the text, its toUpperCase() and
\* 'UTC' followed by the capture of /UTC([+-]\d+)/i, or "" without a match
Timezone(text, upper, offset) == [text |-> text, upper |-> upper, offset |-> offset]
NoTimezone == Timezone("", "", "")

\* the length of the strings that clients send as names
length(s) == CASE s = "bob" -> 3 [] s = "x101" -> 101 [] OTHER -> 5

\* phone.length <= 20 and /^[+]?[1-9][\d\s\-()]{7,18}$/ matches
phoneWellFormed(phone) == phone = "+14155550100"

\* value || null, with null stored as ""
OrNull(value) == IF value = "undefined" THEN "" ELSE value

NoHash == [salt |-> "", rounds |-> 0, digest |-> [key |-> "", msg |-> ""]]
NoRow == [id |-> 0, username |-> "", email |-> NoEmail, password_hash |-> NoHash,
          timezone |-> "", first_name |-> "", last_name |-> "", phone |-> "", role |-> 0]
NoToken == [userId |-> 0, email |-> NoEmail, username |-> "", role |-> 0, iat |-> 0,
            exp |-> 0, sig |-> ""]
NoUser == [userId |-> 0, email |-> NoEmail, username |-> "", role |-> 0]
\* an identifier is a string that is compared with username and with email
NoIdentifier == [username |-> "", email |-> NoEmail]
NoBody == [username |-> "", email |-> NoEmail, password |-> NoPassword,
           confirmPassword |-> NoPassword, registrationToken |-> "",
           currentPassword |-> NoPassword, newPassword |-> NoPassword,
           confirmNewPassword |-> NoPassword, identifier |-> NoIdentifier,
           newEmail |-> NoEmail, timezone |-> NoTimezone,
           headerTimezone |-> NoTimezone, first_name |-> "undefined",
           last_name |-> "undefined", phone |-> "undefined",
           newRole |-> 0, userId |-> 0]

\* the user object of a response
NoSent == [id |-> 0, username |-> "", email |-> NoEmail, timezone |-> "", first_name |-> "",
           last_name |-> "", phone |-> "", role |-> 0, detected_timezone |-> FALSE]
Idle == [kind |-> "idle", pc |-> "idle", token |-> NoToken, body |-> NoBody,
         row |-> NoRow, target |-> NoRow, user |-> NoUser, next |-> FALSE,
         seen |-> "", sent |-> NoSent, list |-> {}, tx |-> "", failed |-> "", status |-> 0,
         error |-> ""]

----------------------------------------------------------------------------
(* Credential hasher *)

\* process.env.X || fallback
OrElse(value, fallback) == IF value # "" THEN value ELSE fallback

PEPPER == OrElse(env.PASSWORD_PEPPER, "fallback-pepper-change-in-production")

\* crypto.createHmac('sha256', PEPPER).update(password).digest('hex'):
\* 64 hex characters that depend on the key and on the whole message.
addPepper(password) == [key |-> PEPPER, msg |-> password.text]

\* the copies of addPepper in login.ts, passwordUpdate.ts, emailUpdate.ts and delete.ts
addPepper_login(password) == [key |-> PEPPER, msg |-> password.text]

\* a copy that hashes and compares the bare password
addPepper_passwordUpdate_NoPepper(password) == [key |-> "", msg |-> password.text]

addPepper_passwordUpdate(password) == [key |-> PEPPER, msg |-> password.text]
addPepper_emailUpdate(password) == [key |-> PEPPER, msg |-> password.text]
addPepper_delete(password) == [key |-> PEPPER, msg |-> password.text]

\* bcrypt.hash(data, rounds) with the salt it drew; data is at most 64
\* characters here, below bcrypt's 72 byte limit, so all of it counts.
bcrypt_hash(data, rounds, salt) == [salt |-> salt, rounds |-> rounds, digest |-> data]

\* bcrypt.compare(data, hash): hash data again with the salt and the rounds of hash.
bcrypt_compare(data, hash) == bcrypt_hash(data, hash.rounds, hash.salt) = hash

Salts == {"s1", "s2"}

----------------------------------------------------------------------------
(* Token service *)

\* jwt.sign(payload, secret, ...): the payload and a signature only secret makes.
\* expiresIn: '30d'
expiresIn == 30

\* jwt.sign(payload, secret, {expiresIn}): exp counts from the iat of the payload
jwt_sign(payload, secret) ==
    [userId |-> payload.userId, email |-> payload.email, username |-> payload.username,
     role |-> payload.role, iat |-> payload.iat, exp |-> payload.iat + expiresIn,
     sig |-> secret]

\* a bearer string that is not a token
MalformedToken == [NoToken EXCEPT !.sig = "garbage"]

\* the message of the error that jwt.verify(token, secret) throws, "" when it returns:
\* the shape is checked first, then the signature, then the expiry
jwt_error(token, secret) ==
    IF token.userId = 0 THEN "jwt malformed"
    ELSE IF token.sig # secret THEN "invalid signature"
    ELSE IF now >= token.exp THEN "jwt expired"
    ELSE ""

\* jwt.verify(token, secret) returns the payload or throws.
jwt_verify(token, secret) == jwt_error(token, secret) = ""

\* the Authorization header is present and starts with 'Bearer '
HasBearer(token) == token # NoToken

----------------------------------------------------------------------------
(* The users table *)

SelectById(id) == {u \in users : u.id = id}
SelectByUsername(username) == {u \in users : u.username = username}
SelectByEmail(email) == {u \in users : u.email = email}

\* rows[0] of a result, NoRow for an empty one
First(rows) == IF rows = {} THEN NoRow ELSE CHOOSE u \in rows : TRUE

\* UPDATE users SET role = newRole WHERE id = id
UpdateRoleWhereId(newRole, id) ==
    {IF u.id = id THEN [u EXCEPT !.role = newRole] ELSE u : u \in users}

----------------------------------------------------------------------------
(* The connection pool *)

\* const client = await database.getClient(): the request of slot p checks a client out
connect(p) == [pool EXCEPT ![p] = @ + 1]

\* a handler without its finally block
release_Never(held, p) == held

\* finally { client.release() }: the client goes back to the pool
release(held, p) == [held EXCEPT ![p] = @ - 1]

\* the client is checked out on entry and goes back when the handler returns
Scoped(p) == pool' = IF reqs'[p].pc = "done" THEN release(connect(p), p) ELSE connect(p)

\* the client that the request holds goes back when the handler returns
Returned(p) == pool' = IF reqs'[p].pc = "done" THEN release(pool, p) ELSE pool

----------------------------------------------------------------------------
(* Responses *)

Answer(status, error) == [status |-> status, error |-> error]
Proceed == Answer(0, "")

Respond(p, status, error) ==
    reqs' = [reqs EXCEPT ![p] = [@ EXCEPT !.pc = "done", !.status = status, !.error = error]]

\* await client.query('ROLLBACK'), then the response
RollbackRespond(p, status, error) ==
    reqs' = [reqs EXCEPT ![p] = [@ EXCEPT !.pc = "done", !.tx = "ROLLBACK", !.status = status,
                                          !.error = error]]

\* user: { id, username, email, role, timezone } of the login response
loginUser(user) ==
    [id |-> user.id, username |-> user.username, email |-> user.email, role |-> user.role,
     timezone |-> user.timezone]

\* RETURNING id, username, email, timezone, first_name, last_name, phone, role; the
\* response has no user when the UPDATE matched no row
profileUser(user) ==
    IF user = NoRow THEN NoSent
    ELSE [id |-> user.id, username |-> user.username, email |-> user.email,
          timezone |-> user.timezone, first_name |-> user.first_name,
          last_name |-> user.last_name, phone |-> user.phone, role |-> user.role]

\* RETURNING id, username, email, timezone
putProfileUser(user) ==
    IF user = NoRow THEN NoSent
    ELSE [id |-> user.id, username |-> user.username, email |-> user.email,
          timezone |-> user.timezone]

\* user: { id, username, email, updated_at } of the update-email response
emailUser(updatedUser) ==
    [id |-> updatedUser.id, username |-> updatedUser.username, email |-> updatedUser.email]

\* details.account of the delete response; the SELECT names the columns firstname and
\* lastname
deletedAccount(user) ==
    [account_id |-> user.id, firstname |-> user.first_name, lastname |-> user.last_name,
     username |-> user.username, email |-> user.email, phone |-> user.phone,
     role |-> user.role]

\* user: { id, username, email, oldRole, newRole, ... } of the role responses
roleUser(targetUser, newRole) ==
    [id |-> targetUser.id, username |-> targetUser.username, email |-> targetUser.email,
     oldRole |-> targetUser.role, newRole |-> newRole]

\* a listing built from SELECT *
listedUser_WithHash(user) ==
    [id |-> user.id, username |-> user.username, email |-> user.email, role |-> user.role,
     first_name |-> user.first_name, last_name |-> user.last_name,
     timezone |-> user.timezone, password_hash |-> user.password_hash]

\* SELECT id, username, email, role, first_name, last_name, timezone, ... of the
\* listing; res.json drops the key password_hash that the handler sets to undefined
listedUser(user) ==
    [id |-> user.id, username |-> user.username, email |-> user.email, role |-> user.role,
     first_name |-> user.first_name, last_name |-> user.last_name,
     timezone |-> user.timezone]

\* SELECT id, username, email, role, first_name, last_name, created_at of the search
foundUser(user) ==
    [id |-> user.id, username |-> user.username, email |-> user.email, role |-> user.role,
     first_name |-> user.first_name, last_name |-> user.last_name]

\* the response has been delivered; the slot serves the next request
Finish(p) ==
    /\ reqs[p].pc = "done"
    /\ reqs' = [reqs EXCEPT ![p] = Idle]
    /\ UNCHANGED <<env, users, nextId, tokens, lastSet, now, dependents, pool>>

----------------------------------------------------------------------------
(* What clients send *)

\* a token signed with a key that is not the server's
ForgedToken == [userId |-> 1, email |-> EmailA, username |-> "owner", role |-> 4, iat |-> 0,
                exp |-> expiresIn, sig |-> "attacker-key"]

\* the tokens that clients hold
Held == {tokens[id] : id \in DOMAIN tokens} \ {NoToken}

----------------------------------------------------------------------------
(* POST /login *)

loginSecret == OrElse(env.JWT_SECRET, "fallback-secret-change-in-production")

\* the client of the user replaces the token it held
Keep(token) == tokens' = [tokens EXCEPT ![token.userId] = token]

\* the body is checked and the user is looked up by email
LoginSelect(p, Emails, Passwords) ==
    /\ reqs[p].pc = "idle"
    /\ \E email \in Emails, password \in Passwords :
         LET r == [Idle EXCEPT !.kind = "login", !.body.email = email, !.body.password = password] IN
         IF email = NoEmail \/ password = NoPassword
         THEN reqs' = [reqs EXCEPT ![p] = [r EXCEPT !.pc = "done", !.status = 400,
                                             !.error = "Email and password are required"]]
         ELSE LET row == First(SelectByEmail(email)) IN
              reqs' = [reqs EXCEPT ![p] = [r EXCEPT !.pc = "bcrypt", !.row = row,
                                             !.seen = IF row = NoRow THEN ""
                                                      ELSE lastSet[row.id]]]
    /\ UNCHANGED <<env, users, nextId, tokens, lastSet, now, dependents, pool>>

\* the decision after bcrypt has run: the dummy hash without a user, the comparison with one
loginCheck_UserNotFound(row, password) ==
    IF row = NoRow THEN Answer(404, "User not found")
    ELSE IF ~bcrypt_compare(addPepper_login(password), row.password_hash)
    THEN Answer(401, "Invalid email or password")
    ELSE Proceed

loginCheck(row, password) ==
    IF row = NoRow THEN Answer(401, "Invalid email or password")
    ELSE IF ~bcrypt_compare(addPepper_login(password), row.password_hash)
    THEN Answer(401, "Invalid email or password")
    ELSE Proceed

\* bcrypt has run and the response is sent
LoginRespond(p) ==
    LET r == reqs[p]
        check == loginCheck(r.row, r.body.password) IN
    /\ r.kind = "login" /\ r.pc = "bcrypt"
    /\ IF check.status # 0
       THEN Respond(p, check.status, check.error) /\ UNCHANGED tokens
       ELSE LET token == jwt_sign([userId |-> r.row.id, email |-> r.row.email,
                                   username |-> r.row.username, role |-> r.row.role,
                                   iat |-> now],
                                  loginSecret) IN
            /\ reqs' = [reqs EXCEPT ![p] = [r EXCEPT !.pc = "done", !.status = 200,
                                              !.token = token, !.sent = loginUser(r.row)]]
            /\ Keep(token)
    /\ UNCHANGED <<env, users, nextId, lastSet, now, dependents, pool>>

----------------------------------------------------------------------------
(* TimezoneService *)

Tz(timezone, offset) == [timezone |-> timezone, offset |-> offset]
COMMON_TIMEZONES == <<
    Tz("America/Los_Angeles", "UTC-8"),
    Tz("America/Denver", "UTC-7"),
    Tz("America/Chicago", "UTC-6"),
    Tz("America/New_York", "UTC-5"),
    Tz("America/Sao_Paulo", "UTC-3"),
    Tz("America/Argentina/Buenos_Aires", "UTC-3"),
    Tz("Europe/London", "UTC+0"),
    Tz("Europe/Paris", "UTC+1"),
    Tz("Europe/Berlin", "UTC+1"),
    Tz("Europe/Moscow", "UTC+3"),
    Tz("Asia/Tokyo", "UTC+9"),
    Tz("Asia/Seoul", "UTC+9"),
    Tz("Asia/Shanghai", "UTC+8"),
    Tz("Asia/Hong_Kong", "UTC+8"),
    Tz("Asia/Singapore", "UTC+8"),
    Tz("Asia/Bangkok", "UTC+7"),
    Tz("Asia/Jakarta", "UTC+7"),
    Tz("Asia/Manila", "UTC+8"),
    Tz("Asia/Kolkata", "UTC+5:30"),
    Tz("Asia/Dubai", "UTC+4"),
    Tz("Australia/Sydney", "UTC+11"),
    Tz("Australia/Melbourne", "UTC+11"),
    Tz("Australia/Perth", "UTC+8"),
    Tz("Pacific/Auckland", "UTC+13"),
    Tz("Etc/GMT+12", "UTC-12"),
    Tz("Etc/GMT-14", "UTC+14") >>

TIMEZONE_ALIASES ==
    ("PST" :> "America/Los_Angeles")
    @@ ("PDT" :> "America/Los_Angeles")
    @@ ("MST" :> "America/Denver")
    @@ ("MDT" :> "America/Denver")
    @@ ("CDT" :> "America/Chicago")
    @@ ("EST" :> "America/New_York")
    @@ ("EDT" :> "America/New_York")
    @@ ("GMT" :> "Europe/London")
    @@ ("BST" :> "Europe/London")
    @@ ("CET" :> "Europe/Paris")
    @@ ("CEST" :> "Europe/Paris")
    @@ ("JST" :> "Asia/Tokyo")
    @@ ("KST" :> "Asia/Seoul")
    @@ ("CST" :> "Asia/Shanghai")
    @@ ("IST" :> "Asia/Kolkata")
    @@ ("AEST" :> "Australia/Sydney")
    @@ ("AEDT" :> "Australia/Sydney")

\* COMMON_TIMEZONES.find(tz => tz.offset === offset): the first entry in table order
findByOffset(offset) ==
    LET hits == {i \in DOMAIN COMMON_TIMEZONES : COMMON_TIMEZONES[i].offset = offset} IN
    IF hits = {} THEN ""
    ELSE COMMON_TIMEZONES[CHOOSE i \in hits : \A j \in hits : i <= j].timezone

isCommonTimezone(name) == \E i \in DOMAIN COMMON_TIMEZONES : COMMON_TIMEZONES[i].timezone = name

normalizeTimezone(input) ==
    IF input = NoTimezone THEN "America/Los_Angeles"
    ELSE IF isCommonTimezone(input.text) THEN input.text
    ELSE IF input.upper \in DOMAIN TIMEZONE_ALIASES THEN TIMEZONE_ALIASES[input.upper]
    ELSE IF input.offset # "" /\ findByOffset(input.offset) # "" THEN findByOffset(input.offset)
    ELSE "America/Los_Angeles"

isValidTimezone(timezone) == isCommonTimezone(normalizeTimezone(timezone))

\* a detection that takes the header as it comes
detectUserTimezone_RawHeader(bodyTimezone, headerTimezone) ==
    IF bodyTimezone # NoTimezone THEN normalizeTimezone(bodyTimezone)
    ELSE IF headerTimezone # NoTimezone THEN headerTimezone.text
    ELSE "America/Los_Angeles"

\* detectUserTimezone: the body, then the x-user-timezone header, then the default
\* (getTimezoneFromIP answers the default as well)
detectUserTimezone(bodyTimezone, headerTimezone) ==
    IF bodyTimezone # NoTimezone THEN normalizeTimezone(bodyTimezone)
    ELSE IF headerTimezone # NoTimezone THEN normalizeTimezone(headerTimezone)
    ELSE "America/Los_Angeles"

----------------------------------------------------------------------------
(* POST /register *)

validRegistrationToken == OrElse(env.REGISTRATION_TOKEN, "your-secret-registration-key")

\* validator.isEmail: a local part, an '@' and a domain
isEmail(email) == \E i \in 2..(Len(email) - 1) : email[i] = "@"

\* the passwordRequirements that password does not meet
missingRequirements(password) == AllClasses \ password.classes

\* the checks on the body before the store is touched
validateRegister(body) ==
    IF body.registrationToken = "" \/ body.registrationToken # validRegistrationToken
    THEN Answer(403, "Invalid registration token. Registration is restricted.")
    ELSE IF body.username = "" \/ body.email = NoEmail \/ body.password = NoPassword
            \/ body.confirmPassword = NoPassword
    THEN Answer(400, "Username, email, password, password confirmation, and registration token are required")
    ELSE IF ~isEmail(body.email)
    THEN Answer(400, "Please enter a valid email address")
    ELSE IF body.password # body.confirmPassword
    THEN Answer(400, "Password and password confirmation do not match")
    ELSE IF length(body.username) < 5 \/ length(body.username) > 50
    THEN Answer(400, "Username must be between 5 and 50 characters")
    ELSE IF body.password.len < 15
    THEN Answer(400, "Password must be at least 15 characters long")
    ELSE IF missingRequirements(body.password) # {}
    THEN Answer(400, "Password must contain ...")
    ELSE IF OrNull(body.first_name) # "" /\ length(body.first_name) > 100
    THEN Answer(400, "First name must be 100 characters or less")
    ELSE IF OrNull(body.last_name) # "" /\ length(body.last_name) > 100
    THEN Answer(400, "Last name must be 100 characters or less")
    ELSE IF OrNull(body.phone) # "" /\ ~phoneWellFormed(body.phone)
    THEN Answer(400, "Invalid phone number format")
    ELSE IF body.timezone # NoTimezone /\ ~isValidTimezone(body.timezone)
    THEN Answer(400, "Invalid timezone. Use /gdt/auth/timezones to see valid options.")
    ELSE Proceed

\* SELECT id FROM users WHERE email = $1 OR username = $2
SelectByEmailOrUsername(email, username) ==
    {u \in users : u.email = email \/ u.username = username}

\* the row breaks UNIQUE (username) or UNIQUE (email) against the other rows
UniqueViolation_NoConstraint(row) == FALSE

UniqueViolation(row) ==
    \E u \in users : u.id # row.id /\ (u.username = row.username \/ u.email = row.email)

\* the body is validated and the existence SELECT runs; a row found is answered 400
RegisterSelect(p, Tokens, Usernames, Emails, Passwords, Timezones, Headers) ==
    /\ reqs[p].pc = "idle"
    /\ \E registrationToken \in Tokens, username \in Usernames, email \in Emails,
          password \in Passwords, confirmPassword \in Passwords, timezone \in Timezones,
          headerTimezone \in Headers :
         LET body == [NoBody EXCEPT !.registrationToken = registrationToken,
                                    !.username = username, !.email = email,
                                    !.password = password, !.confirmPassword = confirmPassword,
                                    !.timezone = timezone,
                                    !.headerTimezone = headerTimezone]
             r == [Idle EXCEPT !.kind = "register", !.body = body]
             check == validateRegister(body)
             existingUser == SelectByEmailOrUsername(email, username) IN
         IF check.status # 0
         THEN reqs' = [reqs EXCEPT ![p] = [r EXCEPT !.pc = "done", !.status = check.status,
                                             !.error = check.error]]
         ELSE IF existingUser # {}
         THEN reqs' = [reqs EXCEPT ![p] = [r EXCEPT !.pc = "done", !.status = 400,
                                             !.row = First(existingUser),
                                             !.error = "User with this email or username already exists"]]
         ELSE reqs' = [reqs EXCEPT ![p] = [r EXCEPT !.pc = "insert"]]
    /\ UNCHANGED <<env, users, nextId, tokens, lastSet, now, dependents, pool>>

\* a response that passes the whole row on
registerUser_WithHash(user, wasDetected) ==
    [id |-> user.id, username |-> user.username, email |-> user.email,
     timezone |-> user.timezone, first_name |-> user.first_name, last_name |-> user.last_name,
     phone |-> user.phone, role |-> user.role, password_hash |-> user.password_hash,
     detected_timezone |-> wasDetected]

\* the user object of the 201 response, built from the columns that the INSERT returns
registerUser(user, wasDetected) ==
    [id |-> user.id, username |-> user.username, email |-> user.email,
     timezone |-> user.timezone, first_name |-> user.first_name, last_name |-> user.last_name,
     phone |-> user.phone, role |-> user.role, detected_timezone |-> wasDetected]

\* the password is hashed and the INSERT runs; an error of the store is answered 500
RegisterInsert(p, SaltsDrawn) ==
    LET r == reqs[p] IN
    /\ r.kind = "register" /\ r.pc = "insert"
    /\ nextId <= MaxUsers
    /\ \E salt \in SaltsDrawn :
         LET pepperedPassword == addPepper(r.body.password)
             passwordHash == bcrypt_hash(pepperedPassword, saltRounds, salt)
             user == [NoRow EXCEPT !.id = nextId, !.username = r.body.username,
                                   !.email = r.body.email, !.password_hash = passwordHash,
                                   !.timezone = detectUserTimezone(r.body.timezone,
                                                                   r.body.headerTimezone),
                                   !.first_name = OrNull(r.body.first_name),
                                   !.last_name = OrNull(r.body.last_name),
                                   !.phone = OrNull(r.body.phone), !.role = 1] IN
         IF UniqueViolation(user)
         THEN Respond(p, 500, "Failed to create user") /\ UNCHANGED <<users, nextId, lastSet>>
         ELSE /\ users' = users \cup {user}
              /\ nextId' = nextId + 1
              /\ lastSet' = [lastSet EXCEPT ![user.id] = r.body.password.text]
              /\ reqs' = [reqs EXCEPT ![p] =
                             [r EXCEPT !.pc = "done", !.status = 201, !.row = user,
                                       !.sent = registerUser(user, r.body.timezone = NoTimezone)]]
    /\ UNCHANGED <<env, tokens, now, dependents, pool>>

----------------------------------------------------------------------------
(* Token verification inside the account handlers *)

\* the claims that jwt.verify returns
Decoded(token) == [userId |-> token.userId, email |-> token.email,
                   username |-> token.username, role |-> token.role]

\* req.user of authenticateToken and optionalAuth: the claims without the role
AuthUser(decoded) == [decoded EXCEPT !.role = 0]

verifyBearer(token, secret, invalid) ==
    IF ~HasBearer(token) THEN Answer(401, "No token provided")
    ELSE IF ~jwt_verify(token, secret) THEN Answer(401, invalid)
    ELSE Proceed

\* a WHERE clause that leaves the identifier out
SelectByIdAndIdentifier_IdOnly(id, identifier) == {u \in users : u.id = id}

\* WHERE id = $1 AND (username = $2 OR email = $2)
SelectByIdAndIdentifier(id, identifier) ==
    {u \in users : u.id = id /\ (u.username = identifier.username \/ u.email = identifier.email)}

\* String.prototype.toLowerCase on the characters of an address
LowerChar(c) == CASE c = "A" -> "a" [] c = "B" -> "b" [] c = "X" -> "x" [] OTHER -> c
toLowerCase(email) == [i \in DOMAIN email |-> LowerChar(email[i])]

----------------------------------------------------------------------------
(* PATCH /update-password *)

passwordSecret == OrElse(env.JWT_SECRET, "fallback-secret-change-in-production")

validateUpdatePassword(body) ==
    IF body.identifier = NoIdentifier \/ body.currentPassword = NoPassword
       \/ body.newPassword = NoPassword \/ body.confirmNewPassword = NoPassword
    THEN Answer(400, "All fields are required: identifier, currentPassword, newPassword, confirmNewPassword")
    ELSE IF body.newPassword # body.confirmNewPassword
    THEN Answer(400, "New password and confirmation do not match")
    ELSE IF body.currentPassword = body.newPassword
    THEN Answer(400, "New password must be different from current password")
    ELSE IF body.newPassword.len < 15
    THEN Answer(400, "New password must be at least 15 characters long")
    ELSE IF missingRequirements(body.newPassword) # {}
    THEN Answer(400, "New password must contain ...")
    ELSE Proceed

\* the token and the body are checked, the transaction begins and the user is read
UpdatePasswordSelect(p, Presented, Identifiers, Passwords) ==
    /\ reqs[p].pc = "idle"
    /\ \E token \in Presented, identifier \in Identifiers, currentPassword \in Passwords,
          newPassword \in Passwords, confirmNewPassword \in Passwords :
         LET body == [NoBody EXCEPT !.identifier = identifier,
                                    !.currentPassword = currentPassword,
                                    !.newPassword = newPassword,
                                    !.confirmNewPassword = confirmNewPassword]
             r == [Idle EXCEPT !.kind = "updatePassword", !.token = token, !.body = body]
             auth == verifyBearer(token, passwordSecret, "Invalid or expired token")
             check == validateUpdatePassword(body) IN
         IF auth.status # 0
         THEN reqs' = [reqs EXCEPT ![p] = [r EXCEPT !.pc = "done", !.status = auth.status,
                                             !.error = auth.error]]
         ELSE IF check.status # 0
         THEN reqs' = [reqs EXCEPT ![p] = [r EXCEPT !.pc = "done", !.status = check.status,
                                             !.error = check.error, !.user = Decoded(token)]]
         ELSE reqs' = [reqs EXCEPT ![p] =
                          [r EXCEPT !.pc = "update", !.user = Decoded(token), !.tx = "BEGIN",
                                    !.row = First(SelectByIdAndIdentifier(token.userId, identifier))]]
    /\ Scoped(p)
    /\ UNCHANGED <<env, users, nextId, tokens, lastSet, now, dependents>>

\* UPDATE users SET password_hash = $1 WHERE id = $2, committed
UpdatePasswordHashWhereId(newPasswordHash, id) ==
    {IF u.id = id THEN [u EXCEPT !.password_hash = newPasswordHash] ELSE u : u \in users}

\* the current password is compared, the new one is hashed, written and committed
UpdatePasswordUpdate(p, SaltsDrawn) ==
    LET r == reqs[p] IN
    /\ r.kind = "updatePassword" /\ r.pc = "update"
    /\ IF r.row = NoRow
       THEN RollbackRespond(p, 403, "Invalid account identifier or insufficient permissions")
            /\ UNCHANGED <<users, lastSet>>
       ELSE IF ~bcrypt_compare(addPepper_passwordUpdate(r.body.currentPassword), r.row.password_hash)
       THEN RollbackRespond(p, 403, "Current password is incorrect")
            /\ UNCHANGED <<users, lastSet>>
       ELSE \E salt \in SaltsDrawn :
              LET pepperedNewPassword == addPepper_passwordUpdate(r.body.newPassword)
                  newPasswordHash == bcrypt_hash(pepperedNewPassword, saltRounds, salt) IN
              /\ users' = UpdatePasswordHashWhereId(newPasswordHash, r.user.userId)
              /\ lastSet' = IF SelectById(r.user.userId) # {}
                            THEN [lastSet EXCEPT ![r.user.userId] = r.body.newPassword.text]
                            ELSE lastSet
              /\ reqs' = [reqs EXCEPT ![p] = [r EXCEPT !.pc = "done", !.tx = "COMMIT",
                                                !.status = 200]]
    /\ Returned(p)
    /\ UNCHANGED <<env, nextId, tokens, now, dependents>>

----------------------------------------------------------------------------
(* PATCH /update-email *)

emailSecret == OrElse(env.JWT_SECRET, "fallback-secret-change-in-production")

\* the token and the body are checked, the transaction begins and the user is read
UpdateEmailSelect(p, Presented, Emails, Passwords) ==
    /\ reqs[p].pc = "idle"
    /\ \E token \in Presented, newEmail \in Emails, password \in Passwords :
         LET body == [NoBody EXCEPT !.newEmail = newEmail, !.password = password]
             r == [Idle EXCEPT !.kind = "updateEmail", !.token = token, !.body = body]
             auth == verifyBearer(token, emailSecret, "Invalid or expired token") IN
         IF auth.status # 0
         THEN reqs' = [reqs EXCEPT ![p] = [r EXCEPT !.pc = "done", !.status = auth.status,
                                             !.error = auth.error]]
         ELSE IF newEmail = NoEmail \/ password = NoPassword
         THEN reqs' = [reqs EXCEPT ![p] = [r EXCEPT !.pc = "done", !.status = 400,
                                             !.error = "New email and password are required",
                                             !.user = Decoded(token)]]
         ELSE IF ~isEmail(newEmail)
         THEN reqs' = [reqs EXCEPT ![p] = [r EXCEPT !.pc = "done", !.status = 400,
                                             !.error = "Please enter a valid email address",
                                             !.user = Decoded(token)]]
         ELSE reqs' = [reqs EXCEPT ![p] = [r EXCEPT !.pc = "check", !.user = Decoded(token),
                                             !.tx = "BEGIN",
                                             !.row = First(SelectById(token.userId))]]
    /\ Scoped(p)
    /\ UNCHANGED <<env, users, nextId, tokens, lastSet, now, dependents>>

\* SELECT id FROM users WHERE email = $1 AND id != $2
SelectByEmailExceptId(email, id) == {u \in users : u.email = email /\ u.id # id}

\* the user read is checked, the password is compared and another holder of the address is looked up
UpdateEmailCheck(p) ==
    LET r == reqs[p] IN
    /\ r.kind = "updateEmail" /\ r.pc = "check"
    /\ IF r.row = NoRow
       THEN RollbackRespond(p, 404, "User not found")
       ELSE IF toLowerCase(r.row.email) = toLowerCase(r.body.newEmail)
       THEN RollbackRespond(p, 400, "New email must be different from current email")
       ELSE IF ~bcrypt_compare(addPepper_emailUpdate(r.body.password), r.row.password_hash)
       THEN RollbackRespond(p, 403, "Invalid password")
       ELSE IF SelectByEmailExceptId(r.body.newEmail, r.user.userId) # {}
       THEN RollbackRespond(p, 409, "Email address is already in use")
       ELSE reqs' = [reqs EXCEPT ![p] = [r EXCEPT !.pc = "update"]]
    /\ Returned(p)
    /\ UNCHANGED <<env, users, nextId, tokens, lastSet, now, dependents>>

\* UPDATE users SET email = $1 WHERE id = $2 RETURNING ..., committed; an error of the
\* store, or no row returned, is answered 500
UpdateEmailUpdate(p) ==
    LET r == reqs[p]
        current == First(SelectById(r.user.userId))
        updatedUser == [current EXCEPT !.email = r.body.newEmail] IN
    /\ r.kind = "updateEmail" /\ r.pc = "update"
    /\ IF current = NoRow
       THEN RollbackRespond(p, 500, "Failed to update email") /\ UNCHANGED users
       ELSE IF UniqueViolation(updatedUser)
       THEN RollbackRespond(p, 500, "Failed to update email") /\ UNCHANGED users
       ELSE /\ users' = (users \ {current}) \cup {updatedUser}
            /\ reqs' = [reqs EXCEPT ![p] = [r EXCEPT !.pc = "done", !.status = 200,
                                              !.tx = "COMMIT", !.target = updatedUser,
                                              !.sent = emailUser(updatedUser)]]
    /\ Returned(p)
    /\ UNCHANGED <<env, nextId, tokens, lastSet, now, dependents>>

----------------------------------------------------------------------------
(* DELETE /account *)

deleteSecret == OrElse(env.JWT_SECRET, "fallback-secret-change-in-production")

\* the token and the body are checked, the transaction begins and the user is read
DeleteAccountSelect(p, Presented, Identifiers, Passwords) ==
    /\ reqs[p].pc = "idle"
    /\ \E token \in Presented, identifier \in Identifiers, password \in Passwords :
         LET body == [NoBody EXCEPT !.identifier = identifier, !.password = password]
             r == [Idle EXCEPT !.kind = "deleteAccount", !.token = token, !.body = body]
             auth == verifyBearer(token, deleteSecret, "Invalid or expired token") IN
         IF auth.status # 0
         THEN reqs' = [reqs EXCEPT ![p] = [r EXCEPT !.pc = "done", !.status = auth.status,
                                             !.error = auth.error]]
         ELSE IF password = NoPassword \/ identifier = NoIdentifier
         THEN reqs' = [reqs EXCEPT ![p] = [r EXCEPT !.pc = "done", !.status = 400,
                                             !.error = "Password and username/email are required for account deletion",
                                             !.user = Decoded(token)]]
         ELSE LET row == First(SelectByIdAndIdentifier(token.userId, identifier)) IN
              reqs' = [reqs EXCEPT ![p] =
                          [r EXCEPT !.pc = "delete", !.user = Decoded(token), !.row = row,
                                    !.tx = "BEGIN",
                                    !.seen = IF row = NoRow THEN "" ELSE lastSet[row.id]]]
    /\ Scoped(p)
    /\ UNCHANGED <<env, users, nextId, tokens, lastSet, now, dependents>>

\* the rows of the dependent tables
Tables == {"user_games", "daily_completions", "reminder_settings"}
Dependent(table, user_id) == [table |-> table, user_id |-> user_id]

\* a DELETE that leaves the rows of the dependent tables behind
DeleteCascade_NoCascade(id) == dependents

\* user_id INTEGER REFERENCES users(id) ON DELETE CASCADE
DeleteCascade(id) == {d \in dependents : d.user_id # id}

\* the password is compared and the row is deleted, committed
DeleteAccountDelete(p) ==
    LET r == reqs[p] IN
    /\ r.kind = "deleteAccount" /\ r.pc = "delete"
    /\ IF r.row = NoRow
       THEN RollbackRespond(p, 403, "Invalid password or account identifier")
            /\ UNCHANGED <<users, dependents>>
       ELSE IF ~bcrypt_compare(addPepper_delete(r.body.password), r.row.password_hash)
       THEN RollbackRespond(p, 403, "Invalid password or account identifier")
            /\ UNCHANGED <<users, dependents>>
       ELSE /\ users' = {u \in users : u.id # r.user.userId}
            /\ dependents' = DeleteCascade(r.user.userId)
            /\ reqs' = [reqs EXCEPT ![p] = [r EXCEPT !.pc = "done", !.tx = "COMMIT",
                                              !.status = 200,
                                              !.sent = deletedAccount(r.row)]]
    /\ Returned(p)
    /\ UNCHANGED <<env, nextId, tokens, lastSet, now>>

----------------------------------------------------------------------------
(* Errors of the store in the transactional handlers *)

TxKinds == {"updatePassword", "updateEmail", "deleteAccount"}

\* BEGIN has run and the handler has more statements to send
InTransaction(r) == r.kind \in TxKinds /\ r.pc \in {"update", "check", "delete"}

\* the text of the 500 response of each catch block
failure(kind) ==
    CASE kind = "updatePassword" -> "Failed to update password"
      [] kind = "updateEmail" -> "Failed to update email"
      [] kind = "deleteAccount" -> "Failed to delete account"

\* statements sent without BEGIN: what was written stays
Rollback_Autocommit(before, written) == written

\* ROLLBACK, or the end of a transaction whose COMMIT failed: what was written is discarded
Rollback(before, written) == before

\* catch: await client.query('ROLLBACK'), then the 500 response; when the ROLLBACK
\* throws as well the handler's promise rejects and no response is sent
Caught(p, statement, rollbackThrows) ==
    reqs' = [reqs EXCEPT ![p] =
                IF rollbackThrows
                THEN [@ EXCEPT !.pc = "done", !.tx = "ROLLBACK", !.failed = "ROLLBACK"]
                ELSE [@ EXCEPT !.pc = "done", !.tx = "ROLLBACK", !.failed = statement,
                               !.status = 500, !.error = failure(reqs[p].kind)]]

\* const client = await database.getClient() stands before the try: when the pool
\* gives no connection the handler's promise rejects and no response is sent
GetClientRejects(p, Kinds, Presented) ==
    /\ reqs[p].pc = "idle"
    /\ \E kind \in Kinds, token \in Presented :
         reqs' = [reqs EXCEPT ![p] = [Idle EXCEPT !.kind = kind, !.token = token,
                                                  !.pc = "done", !.failed = "connect"]]
    /\ UNCHANGED <<env, users, nextId, tokens, lastSet, now, dependents, pool>>

\* a statement of the transaction throws before anything was written: BEGIN, a SELECT,
\* the UPDATE or DELETE itself, or the ROLLBACK of a refusal
QueryThrows(p, Outcomes) ==
    /\ InTransaction(reqs[p])
    /\ \E rollbackThrows \in Outcomes : Caught(p, "QUERY", rollbackThrows)
    /\ Returned(p)
    /\ UNCHANGED <<env, users, nextId, tokens, lastSet, now, dependents>>

\* the UPDATE of the password has run and COMMIT throws
UpdatePasswordCommitThrows(p, SaltsDrawn, Outcomes) ==
    LET r == reqs[p] IN
    /\ r.kind = "updatePassword" /\ r.pc = "update"
    /\ r.row # NoRow
    /\ bcrypt_compare(addPepper_passwordUpdate(r.body.currentPassword), r.row.password_hash)
    /\ \E salt \in SaltsDrawn, rollbackThrows \in Outcomes :
         LET newPasswordHash == bcrypt_hash(addPepper_passwordUpdate(r.body.newPassword),
                                            saltRounds, salt) IN
         /\ users' = Rollback(users, UpdatePasswordHashWhereId(newPasswordHash, r.user.userId))
         /\ Caught(p, "COMMIT", rollbackThrows)
    /\ Returned(p)
    /\ UNCHANGED <<env, nextId, tokens, lastSet, now, dependents>>

\* the UPDATE of the email has run and COMMIT throws
UpdateEmailCommitThrows(p, Outcomes) ==
    LET r == reqs[p]
        current == First(SelectById(r.user.userId))
        updatedUser == [current EXCEPT !.email = r.body.newEmail] IN
    /\ r.kind = "updateEmail" /\ r.pc = "update"
    /\ current # NoRow /\ ~UniqueViolation(updatedUser)
    /\ \E rollbackThrows \in Outcomes :
         /\ users' = Rollback(users, (users \ {current}) \cup {updatedUser})
         /\ Caught(p, "COMMIT", rollbackThrows)
    /\ Returned(p)
    /\ UNCHANGED <<env, nextId, tokens, lastSet, now, dependents>>

\* the DELETE has run, with its cascade, and COMMIT throws
DeleteAccountCommitThrows(p, Outcomes) ==
    LET r == reqs[p] IN
    /\ r.kind = "deleteAccount" /\ r.pc = "delete"
    /\ r.row # NoRow
    /\ bcrypt_compare(addPepper_delete(r.body.password), r.row.password_hash)
    /\ \E rollbackThrows \in Outcomes :
         /\ users' = Rollback(users, {u \in users : u.id # r.user.userId})
         /\ dependents' = Rollback(dependents, DeleteCascade(r.user.userId))
         /\ Caught(p, "COMMIT", rollbackThrows)
    /\ Returned(p)
    /\ UNCHANGED <<env, nextId, tokens, lastSet, now>>

----------------------------------------------------------------------------
(* PUT /profile *)

profileSecret == OrElse(env.JWT_SECRET, "fallback-secret-change-in-production")

validateProfile(body) ==
    IF body.timezone # NoTimezone /\ ~isValidTimezone(body.timezone)
    THEN Answer(400, "Invalid timezone. Use /gdt/timezones/list to see valid options.")
    ELSE IF body.first_name # "undefined" /\ body.first_name # "" /\ length(body.first_name) > 100
    THEN Answer(400, "First name must be 100 characters or less")
    ELSE IF body.last_name # "undefined" /\ body.last_name # "" /\ length(body.last_name) > 100
    THEN Answer(400, "Last name must be 100 characters or less")
    ELSE IF body.phone # "undefined" /\ body.phone # "" /\ ~phoneWellFormed(body.phone)
    THEN Answer(400, "Invalid phone number format")
    ELSE IF body.timezone = NoTimezone /\ body.first_name = "undefined"
            /\ body.last_name = "undefined" /\ body.phone = "undefined"
    THEN Answer(400, "No updates provided")
    ELSE Proceed

\* the SET list that the handler builds from the fields of the body
ApplyProfile(u, body) ==
    [u EXCEPT !.timezone = IF body.timezone # NoTimezone
                           THEN normalizeTimezone(body.timezone) ELSE @,
              !.first_name = IF body.first_name # "undefined" THEN body.first_name ELSE @,
              !.last_name = IF body.last_name # "undefined" THEN body.last_name ELSE @,
              !.phone = IF body.phone # "undefined" THEN body.phone ELSE @]

\* the whole handler: one UPDATE ... WHERE id = $n RETURNING ...
UpdateProfile(p, Presented, Timezones, Names, Phones) ==
    /\ reqs[p].pc = "idle"
    /\ \E token \in Presented, timezone \in Timezones, first_name \in Names,
          last_name \in Names, phone \in Phones :
         LET body == [NoBody EXCEPT !.timezone = timezone, !.first_name = first_name,
                                    !.last_name = last_name, !.phone = phone]
             r == [Idle EXCEPT !.kind = "updateProfile", !.token = token, !.body = body]
             auth == verifyBearer(token, profileSecret, "Invalid token")
             check == validateProfile(body) IN
         IF auth.status # 0
         THEN reqs' = [reqs EXCEPT ![p] = [r EXCEPT !.pc = "done", !.status = auth.status,
                                             !.error = auth.error]]
              /\ UNCHANGED users
         ELSE IF check.status # 0
         THEN reqs' = [reqs EXCEPT ![p] = [r EXCEPT !.pc = "done", !.status = check.status,
                                             !.error = check.error, !.user = Decoded(token)]]
              /\ UNCHANGED users
         ELSE /\ users' = {IF u.id = token.userId THEN ApplyProfile(u, body) ELSE u : u \in users}
              /\ reqs' = [reqs EXCEPT ![p] =
                             [r EXCEPT !.pc = "done", !.status = 200, !.user = Decoded(token),
                                       !.target = ApplyProfile(First(SelectById(token.userId)), body),
                                       !.sent = profileUser(First({u \in users' : u.id = token.userId}))]]
    /\ UNCHANGED <<env, nextId, tokens, lastSet, now, dependents, pool>>

----------------------------------------------------------------------------
(* PUT /profile of routes/auth/index.ts, the router that the application mounts *)

putProfileSecret == OrElse(env.JWT_SECRET, "fallback-secret-change-in-production")

\* /^[^\s@]+@[^\s@]+\.[^\s@]+$/.test(email)
emailRegex_test(email) ==
    \E i \in 2..(Len(email) - 3) :
       /\ email[i] = "@"
       /\ \A k \in DOMAIN email : k # i => email[k] \notin {"@", " "}
       /\ \E j \in (i + 2)..(Len(email) - 1) : email[j] = "."

\* the checks that need no store: the timezone, the address, and something to update
validatePutProfile(body) ==
    IF body.timezone # NoTimezone /\ ~isValidTimezone(body.timezone)
    THEN Answer(400, "Invalid timezone. Use /gdt/auth/timezones to see valid options.")
    ELSE IF body.email # NoEmail /\ ~emailRegex_test(body.email)
    THEN Answer(400, "Invalid email format")
    ELSE IF body.timezone = NoTimezone /\ body.email = NoEmail
    THEN Answer(400, "No updates provided")
    ELSE Proceed

\* the SET list that the handler builds from timezone and email
ApplyPutProfile(u, body) ==
    [u EXCEPT !.timezone = IF body.timezone # NoTimezone
                           THEN normalizeTimezone(body.timezone) ELSE @,
              !.email = IF body.email # NoEmail THEN body.email ELSE @]

\* UPDATE users SET ... WHERE id = $n RETURNING id, username, email, timezone; an error
\* of the store is answered 500, and no row returned is answered 200 all the same
PutProfileWrite(p, r) ==
    LET current == First(SelectById(r.user.userId))
        updatedUser == ApplyPutProfile(current, r.body) IN
    IF current # NoRow /\ UniqueViolation(updatedUser)
    THEN /\ reqs' = [reqs EXCEPT ![p] = [r EXCEPT !.pc = "done", !.status = 500,
                                           !.error = "Failed to update profile"]]
         /\ UNCHANGED users
    ELSE /\ users' = {IF u.id = r.user.userId THEN updatedUser ELSE u : u \in users}
         /\ reqs' = [reqs EXCEPT ![p] = [r EXCEPT !.pc = "done", !.status = 200,
                                           !.target = updatedUser,
                                           !.sent = putProfileUser(First({u \in users' : u.id = r.user.userId}))]]

\* the token and the body are checked; with an email the other holders of it are
\* looked up, without one the UPDATE runs at once
PutProfileSelect(p, Presented, Timezones, Emails) ==
    /\ reqs[p].pc = "idle"
    /\ \E token \in Presented, timezone \in Timezones, email \in Emails :
         LET body == [NoBody EXCEPT !.timezone = timezone, !.email = email]
             r == [Idle EXCEPT !.kind = "putProfile", !.token = token, !.body = body]
             auth == verifyBearer(token, putProfileSecret, "Invalid token")
             check == validatePutProfile(body) IN
         IF auth.status # 0
         THEN reqs' = [reqs EXCEPT ![p] = [r EXCEPT !.pc = "done", !.status = auth.status,
                                             !.error = auth.error]]
              /\ UNCHANGED users
         ELSE IF check.status # 0
         THEN reqs' = [reqs EXCEPT ![p] = [r EXCEPT !.pc = "done", !.status = check.status,
                                             !.error = check.error, !.user = Decoded(token)]]
              /\ UNCHANGED users
         ELSE IF email # NoEmail
         THEN reqs' = [reqs EXCEPT ![p] =
                          [r EXCEPT !.pc = "update", !.user = Decoded(token),
                                    !.row = First(SelectByEmailExceptId(email, token.userId))]]
              /\ UNCHANGED users
         ELSE PutProfileWrite(p, [r EXCEPT !.user = Decoded(token)])
    /\ UNCHANGED <<env, nextId, tokens, lastSet, now, dependents, pool>>

\* a holder of the address is answered 400; otherwise the UPDATE runs
PutProfileUpdate(p) ==
    LET r == reqs[p] IN
    /\ r.kind = "putProfile" /\ r.pc = "update"
    /\ IF r.row # NoRow
       THEN Respond(p, 400, "Email already in use") /\ UNCHANGED users
       ELSE PutProfileWrite(p, r)
    /\ UNCHANGED <<env, nextId, tokens, lastSet, now, dependents, pool>>

----------------------------------------------------------------------------
(* authenticateToken and optionalAuth *)

authSecret == OrElse(env.JWT_SECRET, "fallback-secret")

\* authenticateToken: 401 without a token or with an expired one, 403 for any other
\* token that does not verify
AuthenticateToken(p, Presented) ==
    /\ reqs[p].pc = "idle"
    /\ \E token \in Presented :
         LET r == [Idle EXCEPT !.kind = "authenticateToken", !.token = token] IN
         IF ~HasBearer(token)
         THEN reqs' = [reqs EXCEPT ![p] = [r EXCEPT !.pc = "done", !.status = 401,
                                             !.error = "Access denied. No token provided."]]
         ELSE IF jwt_error(token, authSecret) = "jwt expired"
         THEN reqs' = [reqs EXCEPT ![p] = [r EXCEPT !.pc = "done", !.status = 401,
                                             !.error = "Token expired. Please login again."]]
         ELSE IF ~jwt_verify(token, authSecret)
         THEN reqs' = [reqs EXCEPT ![p] = [r EXCEPT !.pc = "done", !.status = 403,
                                             !.error = "Invalid token."]]
         ELSE reqs' = [reqs EXCEPT ![p] = [r EXCEPT !.pc = "done", !.next = TRUE,
                                             !.user = AuthUser(Decoded(token))]]
    /\ UNCHANGED <<env, users, nextId, tokens, lastSet, now, dependents, pool>>

\* optionalAuth that turns a token down when it does not verify
optionalAuth_Rejects(token) ==
    IF HasBearer(token) /\ ~jwt_verify(token, authSecret)
    THEN [status |-> 401, error |-> "Invalid token.", next |-> FALSE, user |-> NoUser]
    ELSE IF HasBearer(token)
    THEN [status |-> 0, error |-> "", next |-> TRUE, user |-> AuthUser(Decoded(token))]
    ELSE [status |-> 0, error |-> "", next |-> TRUE, user |-> NoUser]

\* optionalAuth: next() without a token; with one, req.user is set when it verifies
\* and the error of jwt.verify is swallowed when it does not
optionalAuth(token) ==
    IF HasBearer(token) /\ jwt_verify(token, authSecret)
    THEN [status |-> 0, error |-> "", next |-> TRUE, user |-> AuthUser(Decoded(token))]
    ELSE [status |-> 0, error |-> "", next |-> TRUE, user |-> NoUser]

\* optionalAuth: the request always continues, with an identity only for a token that verifies
OptionalAuth(p, Presented) ==
    /\ reqs[p].pc = "idle"
    /\ \E token \in Presented :
         LET r == [Idle EXCEPT !.kind = "optionalAuth", !.token = token]
             out == optionalAuth(token) IN
         reqs' = [reqs EXCEPT ![p] = [r EXCEPT !.pc = "done", !.status = out.status,
                                         !.error = out.error, !.next = out.next,
                                         !.user = out.user]]
    /\ UNCHANGED <<env, users, nextId, tokens, lastSet, now, dependents, pool>>

----------------------------------------------------------------------------
(* requireAdmin *)

adminSecret == OrElse(env.JWT_SECRET, "fallback-secret-change-in-production")

\* steps 1-3: the header, the signature, and the SELECT of the caller's row
RequireAdminSelect(p, kind, Presented) ==
    /\ reqs[p].pc = "idle"
    /\ \E token \in Presented :
         LET r == [Idle EXCEPT !.kind = kind, !.token = token] IN
         IF ~HasBearer(token)
         THEN reqs' = [reqs EXCEPT ![p] = [r EXCEPT !.pc = "done", !.status = 401,
                                             !.error = "Admin access required"]]
         ELSE IF ~jwt_verify(token, adminSecret)
         THEN reqs' = [reqs EXCEPT ![p] = [r EXCEPT !.pc = "done", !.status = 401,
                                             !.error = "Invalid or expired admin token"]]
         ELSE reqs' = [reqs EXCEPT ![p] = [r EXCEPT !.pc = "admin",
                                             !.row = First(SelectById(token.userId))]]
    /\ UNCHANGED <<env, users, nextId, tokens, lastSet, now, dependents, pool>>

\* the SELECT of requireAdmin throws: its catch block answers 500
RequireAdminThrows(p, kind, Presented) ==
    /\ reqs[p].pc = "idle"
    /\ \E token \in Presented :
         /\ HasBearer(token) /\ jwt_verify(token, adminSecret)
         /\ reqs' = [reqs EXCEPT ![p] = [Idle EXCEPT !.kind = kind, !.token = token,
                                                    !.pc = "done", !.failed = "QUERY",
                                                    !.status = 500,
                                                    !.error = "Admin authentication failed"]]
    /\ UNCHANGED <<env, users, nextId, tokens, lastSet, now, dependents, pool>>

\* requireAdmin with the privilege check against ROLES.PREMIUM in place of ROLES.ADMIN
requireAdmin_PremiumPasses(decoded, row) ==
    IF row = NoRow
    THEN [status |-> 401, error |-> "Admin user not found", user |-> NoUser]
    ELSE IF decoded.role # row.role
    THEN [status |-> 401, error |-> "Token invalid. Please login again.", user |-> NoUser]
    ELSE IF row.role < ROLES.PREMIUM
    THEN [status |-> 403, error |-> "Admin privileges required", user |-> NoUser]
    ELSE [status |-> 0, error |-> "",
          user |-> [userId |-> row.id, email |-> row.email, username |-> row.username,
                    role |-> row.role]]

\* requireAdmin without step 4, the comparison of the token's role with the stored one
requireAdmin_NoRoleCompare(decoded, row) ==
    IF row = NoRow
    THEN [status |-> 401, error |-> "Admin user not found", user |-> NoUser]
    ELSE IF row.role < ROLES.ADMIN
    THEN [status |-> 403, error |-> "Admin privileges required", user |-> NoUser]
    ELSE [status |-> 0, error |-> "",
          user |-> [userId |-> row.id, email |-> row.email, username |-> row.username,
                    role |-> row.role]]

\* steps 4-6 on the row that was read: the response to send, or status 0 and
\* the identity attached to the request when next() is called
requireAdmin(decoded, row) ==
    IF row = NoRow
    THEN [status |-> 401, error |-> "Admin user not found", user |-> NoUser]
    ELSE IF decoded.role # row.role
    THEN [status |-> 401, error |-> "Token invalid. Please login again.", user |-> NoUser]
    ELSE IF row.role < ROLES.ADMIN
    THEN [status |-> 403, error |-> "Admin privileges required", user |-> NoUser]
    ELSE [status |-> 0, error |-> "",
          user |-> [userId |-> row.id, email |-> row.email, username |-> row.username,
                    role |-> row.role]]

----------------------------------------------------------------------------
(* requireOwner *)

\* requireOwner with the comparison against ROLES.ADMIN in place of ROLES.OWNER
requireOwner_AdminPasses(decoded, row) ==
    LET gate == requireAdmin(decoded, row) IN
    IF gate.status # 0 THEN gate
    ELSE IF gate.user.role < ROLES.ADMIN
    THEN [status |-> 403, error |-> "Owner privileges required", user |-> NoUser]
    ELSE gate

\* requireAdmin runs first; when it has answered, its callback is never called and
\* requireOwner sends nothing; otherwise req.user.role is compared with ROLES.OWNER
requireOwner(decoded, row) ==
    LET gate == requireAdmin(decoded, row) IN
    IF gate.status # 0 THEN gate
    ELSE IF gate.user.role < ROLES.OWNER
    THEN [status |-> 403, error |-> "Owner privileges required", user |-> NoUser]
    ELSE gate

\* a route behind requireOwner: the gate decides and the handler answers
RequireOwnerDecide(p) ==
    LET r == reqs[p]
        gate == requireOwner(r.token, r.row) IN
    /\ r.kind = "ownerOnly" /\ r.pc = "admin"
    /\ IF gate.status # 0
       THEN Respond(p, gate.status, gate.error)
       ELSE reqs' = [reqs EXCEPT ![p] = [r EXCEPT !.pc = "done", !.status = 200,
                                           !.user = gate.user, !.next = TRUE]]
    /\ UNCHANGED <<env, users, nextId, tokens, lastSet, now, dependents, pool>>

----------------------------------------------------------------------------
(* PATCH /users/role/:username *)

\* the assignment rules without the validation of newRole
checkNewRole_NoValidation(adminUser, newRole) ==
    IF newRole = ROLES.OWNER /\ adminUser.role < ROLES.OWNER
    THEN Answer(403, "Only owners can assign owner role")
    ELSE IF newRole = ROLES.ADMIN /\ adminUser.role < ROLES.OWNER
    THEN Answer(403, "Only owners can assign admin role")
    ELSE Proceed

\* the validation of newRole and the two assignment rules
checkNewRole(adminUser, newRole) ==
    IF newRole \notin {1, 2, 3, 4}
    THEN Answer(400, "Invalid role. Must be 1 (User), 2 (Premium), 3 (Admin), or 4 (Owner)")
    ELSE IF newRole = ROLES.OWNER /\ adminUser.role < ROLES.OWNER
    THEN Answer(403, "Only owners can assign owner role")
    ELSE IF newRole = ROLES.ADMIN /\ adminUser.role < ROLES.OWNER
    THEN Answer(403, "Only owners can assign admin role")
    ELSE Proceed

\* the checks on the target without the protection of owners
checkTargetByUsername_NoOwnerProtection(adminUser, targetUser, newRole) ==
    IF targetUser = NoRow
    THEN Answer(404, "User not found")
    ELSE IF targetUser.id = adminUser.userId /\ adminUser.role = ROLES.OWNER
            /\ newRole < ROLES.OWNER
    THEN Answer(403, "You cannot demote yourself from owner role")
    ELSE Proceed

\* the checks on the target row that was read
checkTargetByUsername(adminUser, targetUser, newRole) ==
    IF targetUser = NoRow
    THEN Answer(404, "User not found")
    ELSE IF targetUser.id = adminUser.userId /\ adminUser.role = ROLES.OWNER
            /\ newRole < ROLES.OWNER
    THEN Answer(403, "You cannot demote yourself from owner role")
    ELSE IF targetUser.role = ROLES.OWNER /\ adminUser.role < ROLES.OWNER
    THEN Answer(403, "Only owners can modify other owners")
    ELSE Proceed

\* requireAdmin answers or calls next(); the handler checks newRole and looks the
\* target up by username
PatchRoleByUsernameSelect(p, Usernames, NewRoles) ==
    LET r == reqs[p]
        gate == requireAdmin(r.token, r.row) IN
    /\ r.kind = "roleByUsername" /\ r.pc = "admin"
    /\ IF gate.status # 0
       THEN Respond(p, gate.status, gate.error)
       ELSE \E username \in Usernames, newRole \in NewRoles :
              LET adminUser == gate.user
                  h == [r EXCEPT !.user = adminUser, !.next = TRUE,
                                 !.body.username = username, !.body.newRole = newRole]
                  check == checkNewRole(adminUser, newRole) IN
              IF check.status # 0
              THEN reqs' = [reqs EXCEPT ![p] = [h EXCEPT !.pc = "done", !.status = check.status,
                                                  !.error = check.error]]
              ELSE reqs' = [reqs EXCEPT ![p] = [h EXCEPT !.pc = "target",
                                                  !.target = First(SelectByUsername(username))]]
    /\ UNCHANGED <<env, users, nextId, tokens, lastSet, now, dependents, pool>>

\* the checks on the target, then the UPDATE and the response
PatchRoleByUsernameUpdate(p) ==
    LET r == reqs[p]
        check == checkTargetByUsername(r.user, r.target, r.body.newRole) IN
    /\ r.kind = "roleByUsername" /\ r.pc = "target"
    /\ IF check.status # 0
       THEN Respond(p, check.status, check.error) /\ UNCHANGED users
       ELSE /\ users' = UpdateRoleWhereId(r.body.newRole, r.target.id)
            /\ reqs' = [reqs EXCEPT ![p] = [r EXCEPT !.pc = "done", !.status = 200,
                                              !.sent = roleUser(r.target, r.body.newRole)]]
    /\ UNCHANGED <<env, nextId, tokens, lastSet, now, dependents, pool>>

----------------------------------------------------------------------------
(* PATCH /users/:userId/role *)

\* the checks on the target row that was read
checkTargetById(adminUser, targetUser) ==
    IF targetUser = NoRow
    THEN Answer(404, "User not found")
    ELSE IF targetUser.role = ROLES.OWNER /\ adminUser.role < ROLES.OWNER
    THEN Answer(403, "Only owners can modify other owners")
    ELSE Proceed

PatchRoleByIdSelect(p, UserIds, NewRoles) ==
    LET r == reqs[p]
        gate == requireAdmin(r.token, r.row) IN
    /\ r.kind = "roleById" /\ r.pc = "admin"
    /\ IF gate.status # 0
       THEN Respond(p, gate.status, gate.error)
       ELSE \E userId \in UserIds, newRole \in NewRoles :
              LET adminUser == gate.user
                  h == [r EXCEPT !.user = adminUser, !.next = TRUE,
                                 !.body.userId = userId, !.body.newRole = newRole]
                  check == checkNewRole(adminUser, newRole) IN
              IF check.status # 0
              THEN reqs' = [reqs EXCEPT ![p] = [h EXCEPT !.pc = "done", !.status = check.status,
                                                  !.error = check.error]]
              ELSE reqs' = [reqs EXCEPT ![p] = [h EXCEPT !.pc = "target",
                                                  !.target = First(SelectById(userId))]]
    /\ UNCHANGED <<env, users, nextId, tokens, lastSet, now, dependents, pool>>

PatchRoleByIdUpdate(p) ==
    LET r == reqs[p]
        check == checkTargetById(r.user, r.target) IN
    /\ r.kind = "roleById" /\ r.pc = "target"
    /\ IF check.status # 0
       THEN Respond(p, check.status, check.error) /\ UNCHANGED users
       ELSE /\ users' = UpdateRoleWhereId(r.body.newRole, r.body.userId)
            /\ reqs' = [reqs EXCEPT ![p] = [r EXCEPT !.pc = "done", !.status = 200,
                                              !.sent = roleUser(r.target, r.body.newRole)]]
    /\ UNCHANGED <<env, nextId, tokens, lastSet, now, dependents, pool>>

----------------------------------------------------------------------------
(* GET /users and GET /users/search *)

\* the characters of the usernames that the store can hold
Chars(username) ==
    CASE username = "owner" -> <<"o", "w", "n", "e", "r">>
      [] username = "admin" -> <<"a", "d", "m", "i", "n">>
      [] username = "alice" -> <<"a", "l", "i", "c", "e">>
      [] username = "carol" -> <<"c", "a", "r", "o", "l">>
      [] OTHER -> <<username>>

\* value ILIKE '%q%'
ILike(value, q) ==
    \E i \in 0..(Len(value) - Len(q)) :
       \A j \in 1..Len(q) : LowerChar(value[i + j]) = LowerChar(q[j])

NoSearch == <<>>

\* requireAdmin answers or calls next(); the handler selects the listed columns with
\* the role and search filters of the query string
ListUsersRespond(p, Roles, Searches) ==
    LET r == reqs[p]
        gate == requireAdmin(r.token, r.row) IN
    /\ r.kind = "listUsers" /\ r.pc = "admin"
    /\ IF gate.status # 0
       THEN Respond(p, gate.status, gate.error)
       ELSE \E role \in Roles, search \in Searches :
              LET rows == {u \in users :
                             /\ role # 0 => u.role = role
                             /\ search # NoSearch =>
                                   \/ ILike(Chars(u.username), search)
                                   \/ ILike(u.email, search)} IN
              reqs' = [reqs EXCEPT ![p] = [r EXCEPT !.pc = "done", !.status = 200,
                                             !.user = gate.user, !.next = TRUE,
                                             !.list = {listedUser(u) : u \in rows}]]
    /\ UNCHANGED <<env, users, nextId, tokens, lastSet, now, dependents, pool>>

\* requireAdmin answers or calls next(); a search term of fewer than two characters is
\* refused, else the matching users are selected
SearchUsersRespond(p, Queries) ==
    LET r == reqs[p]
        gate == requireAdmin(r.token, r.row) IN
    /\ r.kind = "searchUsers" /\ r.pc = "admin"
    /\ IF gate.status # 0
       THEN Respond(p, gate.status, gate.error)
       ELSE \E q \in Queries :
              LET h == [r EXCEPT !.user = gate.user, !.next = TRUE]
                  rows == {u \in users : ILike(Chars(u.username), q) \/ ILike(u.email, q)} IN
              IF Len(q) < 2
              THEN reqs' = [reqs EXCEPT ![p] = [h EXCEPT !.pc = "done", !.status = 400,
                                                  !.error = "Search query must be at least 2 characters long"]]
              ELSE reqs' = [reqs EXCEPT ![p] = [h EXCEPT !.pc = "done", !.status = 200,
                                                  !.list = {foundUser(u) : u \in rows}]]
    /\ UNCHANGED <<env, users, nextId, tokens, lastSet, now, dependents, pool>>

----------------------------------------------------------------------------
(* The role routes on a store that holds an owner and an administrator *)

SeedHash(password) == bcrypt_hash([key |-> PEPPER, msg |-> password.text], saltRounds, "s1")

Seed(id, username, email, role) ==
    [NoRow EXCEPT !.id = id, !.username = username, !.email = email,
                  !.password_hash = SeedHash(PwA), !.timezone = "America/Los_Angeles",
                  !.role = role]

EnvFallback == [JWT_SECRET |-> "", PASSWORD_PEPPER |-> "", REGISTRATION_TOKEN |-> ""]

InitRole ==
    /\ env = EnvFallback
    /\ users = {Seed(1, "owner", EmailA, ROLES.OWNER), Seed(2, "admin", EmailB, ROLES.ADMIN)}
    /\ nextId = 3
    /\ tokens = [id \in 1..MaxUsers |-> NoToken]
    /\ reqs = [p \in Procs |-> Idle]
    /\ lastSet = [id \in 1..MaxUsers |-> IF id \in {1, 2} THEN PwA.text ELSE ""]
    /\ now = 0
    /\ dependents = {}
    /\ pool = [p \in Procs |-> 0]

NextRole ==
    \E p \in Procs :
        \/ LoginSelect(p, {EmailA, EmailB}, {PwA, PwB})
        \/ LoginRespond(p)
        \/ RequireAdminSelect(p, "roleByUsername", Held \cup {NoToken})
        \/ PatchRoleByUsernameSelect(p, {"owner", "admin", "ghost"}, 0..4)
        \/ PatchRoleByUsernameUpdate(p)
        \/ Finish(p)

SpecRole == InitRole /\ [][NextRole]_vars

NextRoleById ==
    \E p \in Procs :
        \/ LoginSelect(p, {EmailA, EmailB}, {PwA, PwB})
        \/ LoginRespond(p)
        \/ RequireAdminSelect(p, "roleById", Held \cup {NoToken})
        \/ PatchRoleByIdSelect(p, 1..MaxUsers, {0, 1, 3, 4})
        \/ PatchRoleByIdUpdate(p)
        \/ Finish(p)

SpecRoleById == InitRole /\ [][NextRoleById]_vars

----------------------------------------------------------------------------
(* Registration and change of address on an empty store *)

InitRegister ==
    /\ env = EnvFallback
    /\ users = {}
    /\ nextId = 1
    /\ tokens = [id \in 1..MaxUsers |-> NoToken]
    /\ reqs = [p \in Procs |-> Idle]
    /\ lastSet = [id \in 1..MaxUsers |-> ""]
    /\ now = 0
    /\ dependents = {}
    /\ pool = [p \in Procs |-> 0]

NextRegister ==
    \E p \in Procs :
       \/ RegisterSelect(p, {"your-secret-registration-key"}, {"alice", "bobby"},
                         {EmailA, EmailUpperA, EmailB}, {PwA}, {NoTimezone}, {NoTimezone})
       \/ RegisterInsert(p, {"s1"})
       \/ LoginSelect(p, {EmailA, EmailB}, {PwA})
       \/ LoginRespond(p)
       \/ UpdateEmailSelect(p, Held, {EmailA, EmailUpperA}, {PwA})
       \/ UpdateEmailCheck(p)
       \/ UpdateEmailUpdate(p)
       \/ Finish(p)

SpecRegister == InitRegister /\ [][NextRegister]_vars

----------------------------------------------------------------------------
(* The account operations on a store that holds one user *)

InitAccount ==
    /\ env = EnvFallback
    /\ users = {Seed(1, "owner", EmailA, ROLES.OWNER)}
    /\ nextId = 2
    /\ tokens = [id \in 1..MaxUsers |-> NoToken]
    /\ reqs = [p \in Procs |-> Idle]
    /\ lastSet = [id \in 1..MaxUsers |-> IF id = 1 THEN PwA.text ELSE ""]
    /\ now = 0
    /\ dependents = {}
    /\ pool = [p \in Procs |-> 0]

NextAccount ==
    \E p \in Procs :
       \/ LoginSelect(p, {EmailA, EmailB}, {PwA, PwB})
       \/ LoginRespond(p)
       \/ RegisterSelect(p, {"your-secret-registration-key"}, {"alice"}, {EmailB}, {PwB},
                         {NoTimezone}, {NoTimezone})
       \/ RegisterInsert(p, {"s2"})
       \/ UpdatePasswordSelect(p, Held, {[NoIdentifier EXCEPT !.username = "owner"]}, {PwA, PwB})
       \/ UpdatePasswordUpdate(p, {"s2"})
       \/ UpdateEmailSelect(p, Held, {EmailB}, {PwA})
       \/ UpdateEmailCheck(p)
       \/ UpdateEmailUpdate(p)
       \/ UpdateProfile(p, Held, {NoTimezone}, {"Ann"}, {"undefined"})
       \/ DeleteAccountSelect(p, Held, {[NoIdentifier EXCEPT !.email = EmailB]}, {PwB})
       \/ DeleteAccountDelete(p)
       \/ Finish(p)

SpecAccount == InitAccount /\ [][NextAccount]_vars

----------------------------------------------------------------------------
(* The token-verifying sites, with JWT_SECRET set and with JWT_SECRET unset *)

InitToken ==
    /\ env \in {EnvFallback, [EnvFallback EXCEPT !.JWT_SECRET = "jwt-secret"]}
    /\ users = {Seed(1, "owner", EmailA, ROLES.OWNER)}
    /\ nextId = 2
    /\ tokens = [id \in 1..MaxUsers |-> NoToken]
    /\ reqs = [p \in Procs |-> Idle]
    /\ lastSet = [id \in 1..MaxUsers |-> IF id = 1 THEN PwA.text ELSE ""]
    /\ now = 0
    /\ dependents = {}
    /\ pool = [p \in Procs |-> 0]

NextToken ==
    \E p \in Procs :
       \/ LoginSelect(p, {EmailA}, {PwA})
       \/ LoginRespond(p)
       \/ AuthenticateToken(p, Held)
       \/ OptionalAuth(p, Held)
       \/ RequireAdminSelect(p, "roleByUsername", Held)
       \/ PatchRoleByUsernameSelect(p, {"owner"}, {ROLES.OWNER})
       \/ PatchRoleByUsernameUpdate(p)
       \/ UpdateProfile(p, Held, {NoTimezone}, {"Ann"}, {"undefined"})
       \/ UpdatePasswordSelect(p, Held, {[NoIdentifier EXCEPT !.username = "owner"]}, {PwA, PwB})
       \/ UpdatePasswordUpdate(p, {"s1"})
       \/ UpdateEmailSelect(p, Held, {EmailB}, {PwA})
       \/ UpdateEmailCheck(p)
       \/ UpdateEmailUpdate(p)
       \/ DeleteAccountSelect(p, Held, {[NoIdentifier EXCEPT !.username = "owner"]}, {PwA})
       \/ DeleteAccountDelete(p)
       \/ Finish(p)

SpecToken == InitToken /\ [][NextToken]_vars

----------------------------------------------------------------------------
(* The required-auth sites while the clock advances *)

\* time passes
Tick ==
    /\ now + TickDays <= MaxDays
    /\ now' = now + TickDays
    /\ UNCHANGED <<env, users, nextId, tokens, reqs, lastSet, dependents, pool>>

NextExpiry ==
    \/ Tick
    \/ \E p \in Procs :
          \/ LoginSelect(p, {EmailA}, {PwA})
          \/ LoginRespond(p)
          \/ AuthenticateToken(p, Held \cup {NoToken, ForgedToken, MalformedToken})
          \/ OptionalAuth(p, Held \cup {NoToken, ForgedToken, MalformedToken})
          \/ RequireAdminSelect(p, "ownerOnly", Held)
          \/ RequireOwnerDecide(p)
          \/ UpdateProfile(p, Held, {NoTimezone}, {"Ann"}, {"undefined"})
          \/ DeleteAccountSelect(p, Held, {[NoIdentifier EXCEPT !.username = "owner"]}, {PwA})
          \/ DeleteAccountDelete(p)
          \/ Finish(p)

SpecExpiry == InitToken /\ [][NextExpiry]_vars

----------------------------------------------------------------------------
(* A route behind requireOwner while roles change *)

NextOwner ==
    \E p \in Procs :
       \/ LoginSelect(p, {EmailA, EmailB}, {PwA})
       \/ LoginRespond(p)
       \/ RequireAdminSelect(p, "ownerOnly", Held \cup {NoToken, ForgedToken})
       \/ RequireOwnerDecide(p)
       \/ RequireAdminSelect(p, "roleByUsername", Held)
       \/ PatchRoleByUsernameSelect(p, {"admin"}, {ROLES.USER, ROLES.ADMIN, ROLES.OWNER})
       \/ PatchRoleByUsernameUpdate(p)
       \/ Finish(p)

SpecOwner == InitRole /\ [][NextOwner]_vars

----------------------------------------------------------------------------
(* Deletion of accounts that own rows of the dependent tables *)

InitDelete ==
    /\ env = EnvFallback
    /\ users = {Seed(1, "owner", EmailA, ROLES.OWNER), Seed(2, "admin", EmailB, ROLES.ADMIN)}
    /\ nextId = 3
    /\ tokens = [id \in 1..MaxUsers |-> NoToken]
    /\ reqs = [p \in Procs |-> Idle]
    /\ lastSet = [id \in 1..MaxUsers |-> IF id \in {1, 2} THEN PwA.text ELSE ""]
    /\ now = 0
    /\ dependents \in {rows \in SUBSET {Dependent(table, id) : table \in Tables, id \in {1, 2}} :
                           \A id \in {1, 2} : \E d \in rows : d.user_id = id}
    /\ pool = [p \in Procs |-> 0]

NextDelete ==
    \E p \in Procs :
       \/ LoginSelect(p, {EmailA, EmailB}, {PwA})
       \/ LoginRespond(p)
       \/ DeleteAccountSelect(p, Held \cup {NoToken},
                              {[NoIdentifier EXCEPT !.username = "owner"],
                               [NoIdentifier EXCEPT !.email = EmailB]}, {PwA, PwB})
       \/ DeleteAccountDelete(p)
       \/ Finish(p)

SpecDelete == InitDelete /\ [][NextDelete]_vars

----------------------------------------------------------------------------
(* Registration and profile updates with timezones *)

Tokyo == Timezone("Asia/Tokyo", "ASIA/TOKYO", "")
Jst == Timezone("jst", "JST", "")
UtcMinus3 == Timezone("utc-3", "UTC-3", "UTC-3")
Mars == Timezone("Mars/Olympus", "MARS/OLYMPUS", "")

NextProfile ==
    \E p \in Procs :
       \/ RegisterSelect(p, {"", "your-secret-registration-key"}, {"abcde", "alice"},
                         {EmailA}, {PwA}, {NoTimezone, Jst, Mars}, {NoTimezone, Jst, Mars})
       \/ RegisterInsert(p, {"s1"})
       \/ LoginSelect(p, {EmailA}, {PwA})
       \/ LoginRespond(p)
       \/ UpdateProfile(p, Held, {NoTimezone, Tokyo, UtcMinus3, Mars}, {"undefined", "Ann"},
                        {"undefined"})
       \/ Finish(p)

SpecProfile == InitRegister /\ [][NextProfile]_vars

----------------------------------------------------------------------------
(* The two PUT /profile handlers on a store that holds two users *)

InitPutProfile ==
    /\ env = EnvFallback
    /\ users = {Seed(1, "owner", EmailA, ROLES.OWNER), Seed(2, "carol", EmailC, ROLES.USER)}
    /\ nextId = 3
    /\ tokens = [id \in 1..MaxUsers |-> NoToken]
    /\ reqs = [p \in Procs |-> Idle]
    /\ lastSet = [id \in 1..MaxUsers |-> IF id \in {1, 2} THEN PwA.text ELSE ""]
    /\ now = 0
    /\ dependents = {}
    /\ pool = [p \in Procs |-> 0]

NextPutProfile ==
    \E p \in Procs :
       \/ LoginSelect(p, {EmailA, EmailD}, {PwA})
       \/ LoginRespond(p)
       \/ UpdateProfile(p, Held \cup {NoToken}, {NoTimezone, Tokyo}, {"undefined", "Ann"},
                        {"undefined"})
       \/ PutProfileSelect(p, Held \cup {NoToken}, {NoTimezone, Tokyo},
                           {NoEmail, EmailB, EmailC, EmailD})
       \/ PutProfileUpdate(p)
       \/ Finish(p)

SpecPutProfile == InitPutProfile /\ [][NextPutProfile]_vars

----------------------------------------------------------------------------
(* Registration next to the role routes *)

NextRanks ==
    \E p \in Procs :
       \/ RegisterSelect(p, {"your-secret-registration-key"}, {"alice"}, {EmailD}, {PwA},
                         {NoTimezone}, {NoTimezone})
       \/ RegisterInsert(p, {"s1"})
       \/ LoginSelect(p, {EmailA, EmailB}, {PwA})
       \/ LoginRespond(p)
       \/ RequireAdminSelect(p, "roleByUsername", Held)
       \/ PatchRoleByUsernameSelect(p, {"alice", "admin"}, {0, ROLES.PREMIUM, 5})
       \/ PatchRoleByUsernameUpdate(p)
       \/ RequireAdminSelect(p, "roleById", Held)
       \/ PatchRoleByIdSelect(p, {MaxUsers}, {ROLES.USER, 5})
       \/ PatchRoleByIdUpdate(p)
       \/ Finish(p)

SpecRanks == InitRole /\ [][NextRanks]_vars

----------------------------------------------------------------------------
(* Every operation that answers with data of a user, on a store that holds an owner *)

NextResponses ==
    \E p \in Procs :
       \/ RegisterSelect(p, {"your-secret-registration-key"}, {"alice"}, {EmailB}, {PwA},
                         {NoTimezone}, {NoTimezone})
       \/ RegisterInsert(p, {"s1"})
       \/ LoginSelect(p, {EmailA}, {PwA})
       \/ LoginRespond(p)
       \/ UpdateProfile(p, Held, {NoTimezone}, {"Ann"}, {"undefined"})
       \/ PutProfileSelect(p, Held, {Tokyo}, {EmailD})
       \/ PutProfileUpdate(p)
       \/ UpdatePasswordSelect(p, Held, {[NoIdentifier EXCEPT !.username = "owner"]}, {PwA, PwB})
       \/ UpdatePasswordUpdate(p, {"s1"})
       \/ UpdateEmailSelect(p, Held, {EmailC}, {PwA})
       \/ UpdateEmailCheck(p)
       \/ UpdateEmailUpdate(p)
       \/ DeleteAccountSelect(p, Held, {[NoIdentifier EXCEPT !.username = "owner"]}, {PwA})
       \/ DeleteAccountDelete(p)
       \/ RequireAdminSelect(p, "roleByUsername", Held)
       \/ PatchRoleByUsernameSelect(p, {"alice"}, {ROLES.PREMIUM})
       \/ PatchRoleByUsernameUpdate(p)
       \/ RequireAdminSelect(p, "roleById", Held)
       \/ PatchRoleByIdSelect(p, {2}, {ROLES.ADMIN})
       \/ PatchRoleByIdUpdate(p)
       \/ RequireAdminSelect(p, "listUsers", Held)
       \/ ListUsersRespond(p, {0, ROLES.OWNER}, {NoSearch, <<"@", "X">>})
       \/ RequireAdminSelect(p, "searchUsers", Held)
       \/ SearchUsersRespond(p, {<<"o">>, <<"O", "w">>})
       \/ Finish(p)

SpecResponses == InitAccount /\ [][NextResponses]_vars

----------------------------------------------------------------------------
(* The transactional handlers on a store that can fail *)

InitFaults ==
    /\ env = EnvFallback
    /\ users = {Seed(1, "owner", EmailA, ROLES.OWNER), Seed(2, "admin", EmailB, ROLES.ADMIN)}
    /\ nextId = 3
    /\ tokens = [id \in 1..MaxUsers |-> NoToken]
    /\ reqs = [p \in Procs |-> Idle]
    /\ lastSet = [id \in 1..MaxUsers |-> IF id \in {1, 2} THEN PwA.text ELSE ""]
    /\ now = 0
    /\ dependents = {Dependent("user_games", 1), Dependent("reminder_settings", 2)}
    /\ pool = [p \in Procs |-> 0]

NextFaults ==
    \E p \in Procs :
       \/ LoginSelect(p, {EmailA}, {PwA})
       \/ LoginRespond(p)
       \/ UpdatePasswordSelect(p, Held \cup {NoToken},
                               {[NoIdentifier EXCEPT !.username = "owner"]}, {PwA, PwB})
       \/ UpdatePasswordUpdate(p, {"s2"})
       \/ UpdateEmailSelect(p, Held \cup {NoToken}, {NoEmail, EmailA, EmailB, EmailC}, {PwA})
       \/ UpdateEmailCheck(p)
       \/ UpdateEmailUpdate(p)
       \/ DeleteAccountSelect(p, Held \cup {NoToken},
                              {NoIdentifier, [NoIdentifier EXCEPT !.username = "owner"]}, {PwA})
       \/ DeleteAccountDelete(p)
       \/ RequireAdminSelect(p, "ownerOnly", Held \cup {NoToken})
       \/ RequireOwnerDecide(p)
       \/ RequireAdminThrows(p, "ownerOnly", Held)
       \/ AuthenticateToken(p, Held \cup {NoToken})
       \/ GetClientRejects(p, TxKinds, Held)
       \/ QueryThrows(p, BOOLEAN)
       \/ UpdatePasswordCommitThrows(p, {"s2"}, BOOLEAN)
       \/ UpdateEmailCommitThrows(p, BOOLEAN)
       \/ DeleteAccountCommitThrows(p, BOOLEAN)
       \/ Finish(p)

SpecFaults == InitFaults /\ [][NextFaults]_vars

----------------------------------------------------------------------------
(* Properties of the admin gate and of the role routes *)

AdminKinds == {"roleByUsername", "roleById"}

\* the gate of request r has decided: it has answered or called next()
GateDecided(r) == r.kind \in AdminKinds /\ r.pc \in {"target", "done"}

\* C1: a request to an admin-gated route with a validly signed token whose role
\* claim differs from the role stored for that user is answered 401 by
\* requireAdmin, and the route handler does not run.
C1_StaleRoleUnauthorized ==
    \A p \in Procs :
        LET r == reqs[p] IN
        (GateDecided(r) /\ HasBearer(r.token) /\ jwt_verify(r.token, adminSecret)
            /\ r.token.role # r.row.role)
        => (r.pc = "done" /\ r.status = 401 /\ ~r.next)

\* a token issued to an administrator was presented after the role became User
C1_Witness ==
    \E p \in Procs :
        LET r == reqs[p] IN
        /\ GateDecided(r) /\ jwt_verify(r.token, adminSecret)
        /\ r.token.role = ROLES.ADMIN /\ r.row.id = r.token.userId /\ r.row.role = ROLES.USER
        /\ r.pc = "done" /\ r.status = 401

\* the stored role of user id, 0 when there is no such row
StoredRole(id) == First(SelectById(id)).role

\* C3: every UPDATE that writes role Admin or Owner, or that changes the role of
\* a user whose stored role is Owner at that moment, is made by an actor whose
\* stored role is Owner at that moment.
C3_WritesByOwnerOnly ==
    [][\A p \in Procs :
         LET r == reqs[p] IN
         (r.kind \in AdminKinds /\ r.pc = "target" /\ reqs'[p].status = 200
             /\ SelectById(r.target.id) # {}
             /\ (r.body.newRole \in {ROLES.ADMIN, ROLES.OWNER}
                   \/ StoredRole(r.target.id) = ROLES.OWNER))
         => StoredRole(r.user.userId) = ROLES.OWNER]_vars

\* the decision table of the role update: who is refused
Denied(actorRole, newRole, targetRole) ==
    actorRole # ROLES.OWNER
        /\ (newRole = ROLES.OWNER \/ newRole = ROLES.ADMIN \/ targetRole = ROLES.OWNER)

\* C4: for an actor admitted by the gate, a target other than the actor and a
\* newRole in 1..4, the update by username is refused with 403 and writes nothing
\* exactly when the actor is not Owner and newRole is Owner or Admin or the target
\* is Owner; otherwise it answers 200 and sets the target's role to newRole.
C4_DecisionTable ==
    [][\A p \in Procs :
         LET r == reqs[p]
             d == reqs'[p] IN
         /\ (r.kind = "roleByUsername" /\ r.pc = "admin" /\ d.next /\ d.pc = "done"
                /\ d.body.newRole \in 1..4)
            \* refused before the target is read: the assignment rules
            => (d.status = 403 /\ users' = users
                  /\ d.user.role # ROLES.OWNER
                  /\ d.body.newRole \in {ROLES.ADMIN, ROLES.OWNER})
         /\ (r.kind = "roleByUsername" /\ r.pc = "admin" /\ d.pc = "target")
            => ~(d.user.role # ROLES.OWNER /\ d.body.newRole \in {ROLES.ADMIN, ROLES.OWNER})
         /\ (r.kind = "roleByUsername" /\ r.pc = "target" /\ d.pc = "done"
                /\ r.target # NoRow /\ r.target.id # r.user.userId)
            => IF Denied(r.user.role, r.body.newRole, r.target.role)
               THEN d.status = 403 /\ users' = users
               ELSE /\ d.status = 200
                    /\ \A u \in users :
                         (IF u.id = r.target.id THEN [u EXCEPT !.role = r.body.newRole] ELSE u)
                             \in users'
                    /\ Cardinality(users') = Cardinality(users)]_vars

\* an administrator was refused the assignment of Owner, and an owner made another
\* user Owner
C4_Witness ==
    /\ \E p \in Procs :
         LET r == reqs[p] IN
         /\ r.kind = "roleByUsername" /\ r.pc = "done" /\ r.next
         /\ r.user.role = ROLES.ADMIN /\ r.body.newRole = ROLES.OWNER /\ r.status = 403
    /\ \E p \in Procs :
         LET r == reqs[p] IN
         /\ r.kind = "roleByUsername" /\ r.pc = "done" /\ r.next
         /\ r.user.role = ROLES.OWNER /\ r.body.newRole = ROLES.OWNER /\ r.status = 200
         /\ r.target.id # r.user.userId /\ r.target.role # ROLES.OWNER
         /\ StoredRole(r.target.id) = ROLES.OWNER

\* C5: an actor whose stored role is Owner and who calls a role update on their
\* own account with a newRole below Owner gets 403 and stays Owner, on the route
\* by username and on the route by user id.
C5_NoOwnerSelfDemotion ==
    [][\A p \in Procs :
         LET r == reqs[p] IN
         (r.kind \in AdminKinds /\ r.pc = "target" /\ reqs'[p].pc = "done"
             /\ r.user.role = ROLES.OWNER
             /\ r.target.id = r.user.userId /\ r.body.newRole < ROLES.OWNER)
         => (reqs'[p].status = 403 /\ users' = users)]_vars

----------------------------------------------------------------------------
(* Properties of registration and of the uniqueness of username and email *)

ConflictResponse(r) ==
    r.status = 400 /\ r.error = "User with this email or username already exists"

Taken(username, email) == \E u \in users : u.username = username \/ u.email = email

SameNameOrAddress(a, b) == a.username = b.username \/ a.email = b.email

\* C2: of two valid Register requests with the same username or the same email that both
\* passed the existence SELECT, the one whose INSERT comes second receives the Conflict
\* response (never a 500), adds no row, and one row holds the name afterwards.
C2_RacedRegisterConflict ==
    [][\A p, q \in Procs :
          (/\ p # q
           /\ reqs[p].kind = "register" /\ reqs[p].pc = "insert" /\ reqs'[p].pc = "done"
           /\ reqs[q].kind = "register" /\ reqs[q].pc = "done" /\ reqs[q].status = 201
           /\ reqs[q].row \in users
           /\ SameNameOrAddress(reqs[p].body, reqs[q].body))
          => /\ ConflictResponse(reqs'[p])
             /\ users' = users]_vars

UniqueUsers ==
    \A u, v \in users : u.id # v.id => u.username # v.username /\ u.email # v.email

\* C6: no two rows of users share a username or an email, and a valid Register that
\* arrives while its username or its email is present is answered with the Conflict
\* response and leaves the table as it was.
C6_UniqueAndConflict ==
    /\ []UniqueUsers
    /\ [][\A p \in Procs :
             (/\ reqs[p].pc = "idle" /\ reqs'[p].kind = "register"
              /\ validateRegister(reqs'[p].body).status = 0
              /\ Taken(reqs'[p].body.username, reqs'[p].body.email))
             => ConflictResponse(reqs'[p]) /\ users' = users]_vars

\* the second registration of an address under another username has been turned down
C6_Witness ==
    \E p \in Procs :
       /\ reqs[p].kind = "register" /\ reqs[p].pc = "done" /\ ConflictResponse(reqs[p])
       /\ \E u \in users : u.email = reqs[p].body.email /\ u.username # reqs[p].body.username
       /\ Cardinality({u \in users : u.email = reqs[p].body.email}) = 1

\* C7: no two rows of users have emails that are equal when letter case is ignored.
C7_UniqueIgnoringCase ==
    \A u, v \in users : u.id # v.id => toLowerCase(u.email) # toLowerCase(v.email)

----------------------------------------------------------------------------
(* Properties of Login and of the stored credentials *)

LoginResponse(r) == [status |-> r.status, error |-> r.error, token |-> r.token]

LoginDone(r) ==
    r.kind = "login" /\ r.pc = "done" /\ r.body.email # NoEmail /\ r.body.password # NoPassword

\* C8: a Login for an email without a user and a Login for a user with another password
\* than the one set are answered alike: 401 'Invalid email or password'.
C8_LoginFailuresAlike ==
    \A p, q \in Procs :
       (/\ LoginDone(reqs[p]) /\ reqs[p].row = NoRow
        /\ LoginDone(reqs[q]) /\ reqs[q].row # NoRow /\ reqs[q].body.password.text # reqs[q].seen)
       => /\ LoginResponse(reqs[p]) = LoginResponse(reqs[q])
          /\ reqs[p].status = 401 /\ reqs[p].error = "Invalid email or password"

C8_Witness ==
    \E p, q \in Procs :
       /\ LoginDone(reqs[p]) /\ reqs[p].row = NoRow
       /\ LoginDone(reqs[q]) /\ reqs[q].row # NoRow /\ reqs[q].body.password.text # reqs[q].seen

AllPasswords == {PwA, PwB}

\* the transform of every write path and of every verify path
Peppered(password) ==
    {addPepper(password), addPepper_login(password), addPepper_passwordUpdate(password),
     addPepper_emailUpdate(password), addPepper_delete(password)}

\* C9: a stored hash verifies, on every path, exactly the password most recently set by a
\* successful Register or UpdatePassword, and a Login for an existing user succeeds
\* exactly when it presents that password.
C9_LoginIffLastSet ==
    /\ \A u \in users : \A password \in AllPasswords : \A peppered \in Peppered(password) :
          bcrypt_compare(peppered, u.password_hash) <=> password.text = lastSet[u.id]
    /\ \A p \in Procs :
          (LoginDone(reqs[p]) /\ reqs[p].row # NoRow)
          => (reqs[p].status = 200 <=> reqs[p].body.password.text = reqs[p].seen)

\* after a change of password the new one logs in and the old one does not
C9_Witness ==
    \E p, q \in Procs :
       /\ lastSet[1] = PwB.text
       /\ LoginDone(reqs[p]) /\ reqs[p].row.id = 1 /\ reqs[p].body.password = PwB
       /\ reqs[p].status = 200
       /\ LoginDone(reqs[q]) /\ reqs[q].row.id = 1 /\ reqs[q].body.password = PwA
       /\ reqs[q].seen = PwB.text /\ reqs[q].status = 401

----------------------------------------------------------------------------
(* Properties of the tokens *)

VerifyingKinds == {"authenticateToken", "optionalAuth", "roleByUsername", "updateProfile",
                   "updatePassword", "updateEmail", "deleteAccount"}

\* the site did not take the token for a valid one
TokenRejected(r) ==
    \/ r.error \in {"Invalid token.", "Invalid token", "Invalid or expired token",
                    "Invalid or expired admin token", "No token provided",
                    "Access denied. No token provided.", "Admin access required"}
    \/ r.kind = "optionalAuth" /\ r.user = NoUser

\* C10: every verifying site accepts a token that Login issued and recovers the userId,
\* the email and the username that Login embedded, whether JWT_SECRET is set or not.
C10_IssuedTokenAccepted ==
    \A p \in Procs :
       (reqs[p].kind \in VerifyingKinds /\ reqs[p].token \in Held)
       => /\ ~TokenRejected(reqs[p])
          /\ reqs[p].kind \in {"authenticateToken", "optionalAuth"}
                => reqs[p].user = AuthUser(Decoded(reqs[p].token))
          /\ reqs[p].kind \in {"updateProfile", "updatePassword", "updateEmail", "deleteAccount"}
                => reqs[p].user = Decoded(reqs[p].token)

----------------------------------------------------------------------------
(* Properties of the expiry of tokens *)

RequiredAuthKinds == {"authenticateToken", "roleByUsername", "roleById", "ownerOnly",
                      "updateProfile", "updatePassword", "updateEmail", "deleteAccount"}

\* Login issued the token
Issued(token) == token.userId # 0 /\ token.sig = loginSecret

\* the site took the token for a valid one
Accepted(r) == r.next \/ r.user # NoUser \/ r.pc = "admin"

\* C11: a required-auth check accepts a token of Login only while less than 30 days have
\* passed since its issue; after that it answers 401 and the handler does not run.
C11_ExpiredUnauthorized ==
    [][\A p \in Procs :
          (reqs[p].pc = "idle" /\ reqs'[p].kind \in RequiredAuthKinds /\ Issued(reqs'[p].token))
          => /\ Accepted(reqs'[p]) => now < reqs'[p].token.iat + expiresIn
             /\ now >= reqs'[p].token.iat + expiresIn
                   => (reqs'[p].pc = "done" /\ reqs'[p].status = 401 /\ ~reqs'[p].next)]_vars

----------------------------------------------------------------------------
(* Properties of authenticateToken, requireAdmin, requireOwner and optionalAuth *)

\* C12: authenticateToken answers 401 without a bearer token and 401 for a token that
\* fails verification for whatever reason, in both cases without calling next; for a
\* token that verifies it attaches userId, email and username and calls next.
C12_AuthenticateToken ==
    [][\A p \in Procs :
          (reqs[p].pc = "idle" /\ reqs'[p].kind = "authenticateToken")
          => LET r == reqs'[p] IN
             IF ~HasBearer(r.token) \/ jwt_error(r.token, authSecret) # ""
             THEN r.status = 401 /\ ~r.next /\ r.user = NoUser
             ELSE /\ r.next /\ r.status = 0
                  /\ r.user.userId = r.token.userId /\ r.user.email = r.token.email
                  /\ r.user.username = r.token.username]_vars

\* the token verifies, its user exists and its role claim is the stored role
GateConditions(r) ==
    /\ HasBearer(r.token) /\ jwt_verify(r.token, adminSecret)
    /\ r.row # NoRow /\ r.token.role = r.row.role

\* the identity read from the store
StoredIdentity(row) ==
    [userId |-> row.id, email |-> row.email, username |-> row.username, role |-> row.role]

C14_RequireOwner ==
    \A p \in Procs :
       LET r == reqs[p] IN
       (r.kind = "ownerOnly" /\ r.pc = "done")
       => /\ r.next <=> (GateConditions(r) /\ r.row.role = ROLES.OWNER)
          /\ (GateConditions(r) /\ r.row.role = ROLES.ADMIN)
                => (r.status = 403 /\ r.error = "Owner privileges required")
          /\ ~r.next => (r.status \in {401, 403} /\ r.error # "" /\ r.user = NoUser)
          /\ r.next => (r.status = 200 /\ r.user = StoredIdentity(r.row))

\* an owner has passed the gate and an administrator has been turned down with 403
C14_Witness ==
    \E p, q \in Procs :
       /\ reqs[p].kind = "ownerOnly" /\ reqs[p].pc = "done" /\ reqs[p].next
       /\ reqs[p].row.role = ROLES.OWNER
       /\ reqs[q].kind = "ownerOnly" /\ reqs[q].pc = "done" /\ GateConditions(reqs[q])
       /\ reqs[q].row.role = ROLES.ADMIN /\ reqs[q].status = 403

\* C15: optionalAuth never turns a request down: it calls next and sends no error
\* whatever the token is, and it attaches an identity exactly when a token is present
\* and verifies.
C15_OptionalAuth ==
    [][\A p \in Procs :
          (reqs[p].pc = "idle" /\ reqs'[p].kind = "optionalAuth")
          => LET r == reqs'[p] IN
             /\ r.pc = "done" /\ r.next /\ r.status = 0 /\ r.error = ""
             /\ r.user # NoUser <=> (HasBearer(r.token) /\ jwt_error(r.token, authSecret) = "")
             /\ r.user # NoUser => r.user = AuthUser(Decoded(r.token))]_vars

\* one request went on with the identity of its token, another with an expired token
\* of Login went on without an identity
C15_Witness ==
    \E p, q \in Procs :
       /\ reqs[p].kind = "optionalAuth" /\ reqs[p].pc = "done" /\ reqs[p].next
       /\ reqs[p].user = AuthUser(Decoded(reqs[p].token)) /\ reqs[p].user.userId = 1
       /\ reqs[q].kind = "optionalAuth" /\ reqs[q].pc = "done" /\ reqs[q].next
       /\ reqs[q].token.sig = authSecret /\ now >= reqs[q].token.exp
       /\ reqs[q].user = NoUser

----------------------------------------------------------------------------
(* Properties of DeleteAccount *)

IdentifierMatches(identifier, u) ==
    u.username = identifier.username \/ u.email = identifier.email

\* slot p sends the response of its DeleteAccount in this step
DeleteResponds(p) ==
    reqs[p].kind = "deleteAccount" /\ reqs[p].pc = "delete" /\ reqs'[p].pc = "done"

Gone(id) == (\E u \in users : u.id = id) /\ ~(\E u \in users' : u.id = id)

\* C16: DeleteAccount deletes the row of the token's userId when the identifier is that
\* row's username or email and the password is the one set for it; with another
\* identifier or another password it answers 403 'Invalid password or account
\* identifier' and deletes nothing; no row disappears in any other way.
C16_TripleConfirmation ==
    [][/\ \A p \in Procs :
             (reqs[p].pc = "idle" /\ reqs'[p].kind = "deleteAccount" /\ reqs'[p].pc = "delete")
             => LET r == reqs'[p] IN
                IF \E u \in users : u.id = r.token.userId /\ IdentifierMatches(r.body.identifier, u)
                THEN r.row \in users /\ r.row.id = r.token.userId
                ELSE r.row = NoRow
       /\ \A p \in Procs :
             DeleteResponds(p)
             => LET r == reqs[p] IN
                IF r.row # NoRow /\ r.body.password.text = r.seen
                THEN reqs'[p].status = 200 /\ users' = {u \in users : u.id # r.token.userId}
                ELSE /\ reqs'[p].status = 403
                     /\ reqs'[p].error = "Invalid password or account identifier"
                     /\ users' = users
       /\ \A id \in 1..MaxUsers :
             Gone(id) => \E p \in Procs : DeleteResponds(p) /\ reqs'[p].status = 200
                                          /\ reqs[p].row.id = id]_vars

\* one deletion went through, one was turned down for its identifier and one for its password
C16_Witness ==
    \E p, q \in Procs :
       /\ reqs[p].kind = "deleteAccount" /\ reqs[p].pc = "done" /\ reqs[p].status = 200
       /\ reqs[p].row.id = 2 /\ ~(\E u \in users : u.id = 2)
       /\ reqs[q].kind = "deleteAccount" /\ reqs[q].pc = "done" /\ reqs[q].status = 403
       /\ reqs[q].token.userId = 1 /\ reqs[q].row = NoRow
       /\ reqs[q].body.identifier.email = EmailB

\* C17: every row of user_games, daily_completions and reminder_settings references a
\* row of users in every state, and once DeleteAccount has succeeded for a user neither
\* that user's row nor a dependent row with that user_id is left.
C17_CascadeAtomic ==
    /\ \A d \in dependents : \E u \in users : u.id = d.user_id
    /\ \A p \in Procs :
          (reqs[p].kind = "deleteAccount" /\ reqs[p].pc = "done" /\ reqs[p].status = 200)
          => /\ ~(\E u \in users : u.id = reqs[p].token.userId)
             /\ ~(\E d \in dependents : d.user_id = reqs[p].token.userId)

\* the account of user 2 is deleted and only the dependent rows of user 1 are left
C17_Witness ==
    \E p \in Procs :
       /\ reqs[p].kind = "deleteAccount" /\ reqs[p].pc = "done" /\ reqs[p].status = 200
       /\ reqs[p].token.userId = 2
       /\ dependents # {} /\ \A d \in dependents : d.user_id = 1

----------------------------------------------------------------------------
(* Properties of Register and of the timezones *)

\* the inputs that the Register of the specification lists, all within its rules
ListedInputsValid(body) ==
    /\ body.username # "" /\ length(body.username) >= 5 /\ length(body.username) <= 50
    /\ isEmail(body.email)
    /\ body.password = body.confirmPassword
    /\ body.password.len >= 15 /\ body.password.classes = AllClasses
    /\ body.timezone = NoTimezone \/ isCommonTimezone(body.timezone.text)
       \/ body.timezone.upper \in DOMAIN TIMEZONE_ALIASES

RegisterStarts(p) == reqs[p].pc = "idle" /\ reqs'[p].kind = "register"

RegisterInserts(p) ==
    reqs[p].kind = "register" /\ reqs[p].pc = "insert" /\ reqs'[p].pc = "done"

\* the 201 response and the row of a successful Register
Created(p) ==
    LET r == reqs'[p] IN
    /\ r.status = 201
    /\ \E u \in users' \ users :
          /\ users' = users \cup {u}
          /\ u.role = ROLES.USER /\ u.username = r.body.username /\ u.email = r.body.email
          /\ r.sent.id = u.id
    /\ r.sent.role = ROLES.USER
    /\ "password_hash" \notin DOMAIN r.sent

Unsupported(timezone) ==
    /\ timezone # NoTimezone
    /\ ~isCommonTimezone(timezone.text)
    /\ timezone.upper \notin DOMAIN TIMEZONE_ALIASES

\* C19: a Register or an UpdateProfile that names a timezone outside the supported set
\* and the aliases is answered 400 with the invalid-timezone error and changes no user.
C19_InvalidTimezoneRejected ==
    [][\A p \in Procs :
          (/\ reqs[p].pc = "idle" /\ reqs'[p].kind \in {"register", "updateProfile"}
           /\ Unsupported(reqs'[p].body.timezone)
           /\ reqs'[p].kind = "register"
                 => reqs'[p].body.registrationToken = validRegistrationToken
           /\ reqs'[p].kind = "updateProfile" => reqs'[p].user # NoUser)
          => /\ reqs'[p].pc = "done" /\ reqs'[p].status = 400
             /\ users' = users]_vars

----------------------------------------------------------------------------
(* Properties of UpdateEmail *)

\* C20: an UpdateEmail whose new address is the email of another user when its UPDATE
\* is applied is answered 409 and changes no row, whatever ran between its reads and
\* its UPDATE.
C20_RacedUpdateEmailConflict ==
    [][\A p \in Procs :
          (/\ reqs[p].kind = "updateEmail" /\ reqs[p].pc = "update" /\ reqs'[p].pc = "done"
           /\ \E u \in users : u.email = reqs[p].body.newEmail /\ u.id # reqs[p].user.userId)
          => /\ reqs'[p].status = 409
             /\ users' = users]_vars

----------------------------------------------------------------------------
(* Properties of UpdateProfile *)

ProfileKinds == {"updateProfile", "putProfile"}

\* slot p sends the response of its PUT /profile in this step
ProfileResponds(p) ==
    reqs'[p].kind \in ProfileKinds /\ reqs[p].pc # "done" /\ reqs'[p].pc = "done"

\* the columns that UpdateProfile must leave alone
Sensitive(u) == [id |-> u.id, email |-> u.email, username |-> u.username,
                 password_hash |-> u.password_hash, role |-> u.role]

Provided(body) ==
    {f \in {"first_name", "last_name", "phone"} : body[f] # "undefined"}
        \cup (IF body.timezone # NoTimezone THEN {"timezone"} ELSE {})

\* C21: UpdateProfile asks for no password and leaves email, username, password_hash and
\* role of every user as they were; when it succeeds, the provided fields among timezone,
\* first_name, last_name and phone of the token's user change and nothing else does;
\* with none of the four provided it answers 400 and changes nothing.
C21_ProfileOnlyNonSensitive ==
    [][\A p \in Procs :
          ProfileResponds(p)
          => LET r == reqs'[p] IN
             /\ {Sensitive(u) : u \in users'} = {Sensitive(u) : u \in users}
             /\ r.status # 200 => users' = users
             /\ r.status = 200
                   => \A u \in users :
                         \E v \in users' :
                            /\ v.id = u.id
                            /\ u.id # r.user.userId => v = u
                            /\ u.id = r.user.userId
                                  => /\ \A f \in {"first_name", "last_name", "phone"} :
                                          v[f] = IF f \in Provided(r.body) THEN r.body[f]
                                                 ELSE u[f]
                                     /\ "timezone" \notin Provided(r.body)
                                           => v.timezone = u.timezone
             /\ (r.user # NoUser /\ Provided(r.body) = {})
                   => (r.status = 400 /\ users' = users)]_vars

----------------------------------------------------------------------------
(* Properties of the ranks *)

Ranks == {ROLES.USER, ROLES.PREMIUM, ROLES.ADMIN, ROLES.OWNER}

RolesDefined == \A u \in users : u.role \in Ranks

\* slot p completes a role update with 200 in this step
RoleUpdated(p) ==
    reqs[p].kind \in AdminKinds /\ reqs[p].pc = "target" /\ reqs'[p].status = 200

\* C22: the role of every user is one of 1, 2, 3, 4 in every state; a row appears only
\* by a Register that answers 201, and with role 1; the role of a row changes only in
\* an UpdateRole that answers 200, and to its newRole, one of the four ranks.
C22_RolesDefined ==
    /\ []RolesDefined
    /\ [][/\ \A v \in users' :
               (\A u \in users : u.id # v.id)
               => /\ v.role = ROLES.USER
                  /\ \E p \in Procs : RegisterInserts(p) /\ reqs'[p].status = 201
                                        /\ reqs'[p].row = v
          /\ \A u \in users, v \in users' :
               (u.id = v.id /\ u.role # v.role)
               => \E p \in Procs : /\ RoleUpdated(p)
                                    /\ reqs[p].body.newRole \in Ranks
                                    /\ v.role = reqs[p].body.newRole]_vars

\* the registered user has been made Premium, and a newRole of 5 was answered 400
C22_Witness ==
    /\ \E u \in users : u.username = "alice" /\ u.role = ROLES.PREMIUM
    /\ \E p \in Procs :
          /\ reqs[p].kind \in AdminKinds /\ reqs[p].pc = "done" /\ reqs[p].body.newRole = 5
          /\ reqs[p].status = 400

----------------------------------------------------------------------------
(* Properties of the response bodies *)

\* the columns and claims that a response may show
PublicKeys ==
    {"id", "account_id", "userId", "username", "email", "role", "oldRole", "newRole",
     "timezone", "detected_timezone", "first_name", "last_name", "firstname", "lastname",
     "phone", "iat", "exp", "sig"}

\* the fields in which a client can place a text of its choice
TextKeys == {"username", "first_name", "last_name", "firstname", "lastname", "phone"}

PasswordTexts == {password.text : password \in AllPasswords}

\* neither the hash nor a password, peppered or not, is part of the object
Clean(o) ==
    /\ DOMAIN o \subseteq PublicKeys
    /\ \A k \in DOMAIN o \cap TextKeys : o[k] \notin PasswordTexts

\* C23: no response of Register, Login, UpdateProfile, UpdatePassword, UpdateEmail,
\* DeleteAccount, UpdateRole, the user listing or the user search contains password_hash
\* or a password, plain or peppered: the user object, the listed users, the claims of the
\* token and the error text are free of them.
C23_NoCredentialInResponse ==
    \A p \in Procs :
       LET r == reqs[p] IN
       /\ Clean(r.sent)
       /\ \A o \in r.list : Clean(o)
       /\ Clean(r.token)
       /\ r.error \notin PasswordTexts

\* an administrator has been shown the listing of two users, each with a stored hash
C23_Witness ==
    \E p \in Procs :
       /\ reqs[p].kind = "listUsers" /\ reqs[p].pc = "done" /\ reqs[p].status = 200
       /\ Cardinality(reqs[p].list) = 2
       /\ \A o \in reqs[p].list : \E u \in users : u.id = o.id /\ u.password_hash # NoHash

----------------------------------------------------------------------------
(* Properties of the transactional handlers *)

\* C24: a step of UpdatePassword, UpdateEmail or DeleteAccount that does not end in the
\* success response leaves the users and their dependent rows as they were, and an
\* error response sent after BEGIN is sent after a ROLLBACK; this includes the store
\* errors raised after BEGIN and at COMMIT.
C24_FailureLeavesStore ==
    [][\A p \in Procs :
          (reqs'[p] # reqs[p] /\ reqs'[p].kind \in TxKinds /\ reqs'[p].status # 200)
          => /\ users' = users /\ dependents' = dependents
             /\ (reqs[p].tx = "BEGIN" /\ reqs'[p].status # 0) => reqs'[p].tx = "ROLLBACK"]_vars

\* a DeleteAccount whose COMMIT failed has been answered 500 and the user and the
\* dependent rows are in the store
C24_Witness ==
    \E p \in Procs :
       /\ reqs[p].kind = "deleteAccount" /\ reqs[p].pc = "done"
       /\ reqs[p].status = 500 /\ reqs[p].failed = "COMMIT" /\ reqs[p].tx = "ROLLBACK"
       /\ \E u \in users : u.id = reqs[p].user.userId
       /\ \E d \in dependents : d.user_id = reqs[p].user.userId

\* C25: a request of an account operation that is answered 400 has begun no transaction
\* and written nothing: the validation failures (missing field, mismatch, new password
\* equal to the current one, weak password, invalid email, new email equal to the
\* current one) are answered before BEGIN.
C25_ValidationBeforeBegin ==
    \A p \in Procs :
       (reqs[p].pc = "done" /\ reqs[p].status = 400) => reqs[p].tx = ""

\* C26: the connection that UpdatePassword, UpdateEmail or DeleteAccount acquires is held
\* while the handler is between its statements and is released exactly once on every
\* exit (token refused, validation failure, 403, success, store error, failing ROLLBACK):
\* a request that is not in flight holds no connection, and none is released twice.
C26_ConnectionsReleased ==
    \A p \in Procs : pool[p] = IF InTransaction(reqs[p]) THEN 1 ELSE 0

\* a request whose ROLLBACK threw in the catch block has finished and holds nothing,
\* while its neighbour is in its transaction and holds one connection
C26_Witness ==
    \E p, q \in Procs :
       /\ reqs[p].kind \in TxKinds /\ reqs[p].pc = "done" /\ reqs[p].failed = "ROLLBACK"
       /\ pool[p] = 0
       /\ InTransaction(reqs[q]) /\ pool[q] = 1

----------------------------------------------------------------------------
(* Properties across operations *)

\* C27: with the role route by username as the only operation that changes roles, and at
\* least one Owner in the store at the start, every reachable state has a user with role
\* Owner, whichever way the requests of different Owners interleave.
C27_AlwaysAnOwner == \E u \in users : u.role = ROLES.OWNER

\* the operations that act for the user of the token
ActingKinds ==
    {"updateProfile", "putProfile", "updatePassword", "updateEmail", "deleteAccount",
     "roleByUsername",
     "roleById", "ownerOnly", "listUsers", "searchUsers"}

\* C28: once the row of a user is deleted, a request that presents the user's token and
\* is answered afterwards is not answered with success and changes no row; this covers
\* a deletion that commits between the request's read and its write, so no success
\* follows an UPDATE that matched no row.
C28_DeletedTokenRefused ==
    [][\A p \in Procs :
          (/\ reqs'[p].kind \in ActingKinds
           /\ reqs[p].pc # "done" /\ reqs'[p].pc = "done"
           /\ reqs'[p].token # NoToken /\ SelectById(reqs'[p].token.userId) = {})
          => reqs'[p].status # 200 /\ users' = users]_vars

\* the middleware taken alone, which answers or calls next(); the other kinds are
\* routes, whose handler answers after its gate has called next()
MiddlewareKinds == {"authenticateToken", "optionalAuth"}

\* C29: a request that has run to its end has exactly one outcome: a handler has sent
\* one response, a middleware has sent one response or called next() and not both; this
\* holds when the store fails at any step, the pool gives no connection or the ROLLBACK
\* of the error path throws.
C29_ExactlyOneOutcome ==
    \A p \in Procs :
       reqs[p].pc = "done"
       => IF reqs[p].kind \in MiddlewareKinds
          THEN (reqs[p].status # 0) # reqs[p].next
          ELSE reqs[p].status # 0

\* C30: the timezone stored for every user is one of COMMON_TIMEZONES, whatever Register
\* receives in the body or in the X-User-Timezone header and whatever UpdateProfile
\* receives in the body.
C30_StoredTimezoneCommon == \A u \in users : isCommonTimezone(u.timezone)

\* a user has registered with an unsupported X-User-Timezone header and no timezone in
\* the body and was stored with the default, and the user's timezone has then been set
\* by an offset through UpdateProfile
C30_Witness ==
    /\ \E p \in Procs :
          /\ reqs[p].kind = "register" /\ reqs[p].status = 201
          /\ reqs[p].body.timezone = NoTimezone /\ reqs[p].body.headerTimezone = Mars
          /\ reqs[p].sent.timezone = "America/Los_Angeles"
    /\ \E q \in Procs :
          /\ reqs[q].kind = "updateProfile" /\ reqs[q].status = 200
          /\ reqs[q].body.timezone = UtcMinus3
          /\ \E u \in users : u.id = reqs[q].user.userId /\ u.timezone = findByOffset("UTC-3")

====
